---------------------------- MODULE Spec2Model ----------------------------
(***************************************************************************)
(* A model of tvws, a client for the TradingView WebSocket protocol:       *)
(*   - the candle retrieval state machine and its orchestrators getCandles *)
(*     and getCandlesConcurrent (src/src/index.ts, src/src/data/candles.ts)*)
(*   - the frame codec (src/src/connection/protocol.ts);                   *)
(*   - connect and connectToEndpoint (src/src/connection/websocket.ts).    *)
(* JavaScript arrays are modelled as sequences; a JavaScript index i is    *)
(* the sequence index i + 1.  An absent amount (undefined) is NoAmount.    *)
(***************************************************************************)
EXTENDS Integers, Sequences, FiniteSets, TLC

(***************************************************************************)
(* Bounds.  MAX_BATCH_SIZE is 5000 in the source (candles.ts:19) and       *)
(* validateAmount accepts amounts up to 10000 = 2 * MAX_BATCH_SIZE         *)
(* (part_000:118); the model keeps that ratio and scales both down so that *)
(* bar sequences stay short.                                               *)
(***************************************************************************)
MAX_BATCH_SIZE == 2

AMOUNT_LIMIT == 2 * MAX_BATCH_SIZE

MaxSymbols == 2

MaxRounds == 2

MaxEvents == 2

MaxFeed == 2 * MAX_BATCH_SIZE + 1

Symbols == {"A", "B"}

NoAmount == 0

Min(a, b) == IF a < b THEN a ELSE b

Max(a, b) == IF a > b THEN a ELSE b

(***************************************************************************)
(* Raw candles and candles.                                                *)
(***************************************************************************)
SymTag(sym) == IF sym = "A" THEN 100 ELSE 200

\* The raw candle of symbol sym at time t as the feed sends it: {i, v}.
RawBar(sym, t) ==
    [i |-> t, v |-> <<t, SymTag(sym) + 1, SymTag(sym) + 3, SymTag(sym), SymTag(sym) + 2, 7>>]

\* The raw candles of sym with timestamps lo..hi, oldest first.
RawBars(sym, lo, hi) == [k \in 1..Max(hi - lo + 1, 0) |-> RawBar(sym, lo + k - 1)]

\* A variant that reads the timestamp from the open field.
processCandle_OpenAsTimestamp(rawCandle) ==
    [timestamp |-> rawCandle.v[2], open |-> rawCandle.v[2], high |-> rawCandle.v[3],
     low |-> rawCandle.v[4], close |-> rawCandle.v[5], volume |-> rawCandle.v[6]]

processCandle(rawCandle) ==
    [timestamp |-> rawCandle.v[1], open |-> rawCandle.v[2], high |-> rawCandle.v[3],
     low |-> rawCandle.v[4], close |-> rawCandle.v[5], volume |-> rawCandle.v[6]]

processCandles(rawCandles) == [k \in 1..Len(rawCandles) |-> processCandle(rawCandles[k])]

\* Array.prototype.slice(0, end): a negative end counts from the end of the
\* array, and -0 is 0, so slice(0, -0) is the empty array.
Slice0(s, end) ==
    LET e == IF end < 0 THEN Max(Len(s) + end, 0) ELSE Min(end, Len(s))
    IN  SubSeq(s, 1, e)

calculateBatchSize(amount) ==
    IF amount # NoAmount /\ amount < MAX_BATCH_SIZE THEN amount ELSE MAX_BATCH_SIZE

filterNewCandles(newCandles, existingCandles, batchSize) ==
    IF Len(newCandles) <= batchSize
    THEN newCandles
    ELSE Slice0(newCandles, 0 - Len(existingCandles))

\* A variant that asks for more whenever the amount is not reached.
shouldRequestMoreData_AnyCount(loadedCount, requestedAmount) ==
    /\ loadedCount > 0
    /\ (requestedAmount = NoAmount \/ loadedCount < requestedAmount)

shouldRequestMoreData(loadedCount, requestedAmount) ==
    /\ loadedCount > 0
    /\ loadedCount % MAX_BATCH_SIZE = 0
    /\ (requestedAmount = NoAmount \/ loadedCount < requestedAmount)

\* validateSymbol: a non-empty string without surrounding whitespace that
\* matches /^[A-Z0-9:_.-]+$/i.  The strings that fail one of the three tests.
MalformedSymbols == {"", " A", "A$"}

validateSymbol(symbol) == symbol \notin MalformedSymbols

\* validateSymbols: a non-empty array of at most 100 well-formed symbols; the
\* same symbol may occur twice.
validateSymbols(symbols) ==
    /\ Len(symbols) >= 1
    /\ \A i \in 1..Len(symbols) : validateSymbol(symbols[i])

\* validateAmount: undefined, or an integer in 1..10000.  NoAmount stands for
\* undefined, a negative number for an amount that is not positive.
validateAmount(amount) == amount = NoAmount \/ (amount >= 1 /\ amount <= AMOUNT_LIMIT)

\* validateTimeframe: the timeframe in TradingView's notation, "" when the
\* function throws.  A number is written as its decimal string.
validTimeframes ==
    {"1", "3", "5", "15", "30", "45", "60", "120", "180", "240", "1D", "1W", "1M"}

timeframeMap ==
    ("1m" :> "1") @@ ("3m" :> "3") @@ ("5m" :> "5") @@ ("15m" :> "15") @@
    ("30m" :> "30") @@ ("45m" :> "45") @@ ("1h" :> "60") @@ ("2h" :> "120") @@
    ("3h" :> "180") @@ ("4h" :> "240") @@ ("1d" :> "1D") @@ ("1w" :> "1W") @@
    ("1M" :> "1M") @@ ("D" :> "1D") @@ ("W" :> "1W") @@ ("M" :> "1M")

\* String.prototype.toLowerCase on the timeframes tried.
toLowerCase(s) ==
    CASE s = "1H" -> "1h"
      [] s = "D" -> "d"
      [] OTHER -> s

validateTimeframe(timeframe) ==
    IF timeframe \in validTimeframes THEN timeframe
    ELSE IF toLowerCase(timeframe) \in DOMAIN timeframeMap
         THEN timeframeMap[toLowerCase(timeframe)]
         ELSE ""

\* params.timeframe: absent, or one of the values tried.
NoTimeframe == "none"

Timeframes == {NoTimeframe, "60", "1H", "D", "7"}

ValidTimeframes == {tf \in Timeframes : tf = NoTimeframe \/ validateTimeframe(tf) # ""}

\* CandleDataProcessor.validateParams: TRUE when it returns, FALSE when it
\* throws.  connection: params.connection is given.
validateParams(connection, symbols, amount, timeframe) ==
    /\ connection
    /\ validateSymbols(symbols)
    /\ validateAmount(amount)
    /\ timeframe # NoTimeframe => validateTimeframe(timeframe) # ""

\* The parameters that validateParams refuses, one fault at a time.
InvalidParams ==
    {[connection |-> FALSE, symbols |-> <<"A">>, amount |-> NoAmount, timeframe |-> NoTimeframe]}
    \cup {[connection |-> TRUE, symbols |-> l, amount |-> NoAmount, timeframe |-> NoTimeframe] :
             l \in {<<>>, <<"">>, <<"A", " A">>, <<"A$">>}}
    \cup {[connection |-> TRUE, symbols |-> <<"A">>, amount |-> a, timeframe |-> NoTimeframe] :
             a \in {0 - 1, AMOUNT_LIMIT + 1}}
    \cup {[connection |-> TRUE, symbols |-> <<"A">>, amount |-> NoAmount, timeframe |-> tf] :
             tf \in {"D", "7"}}

SymbolLists == UNION {[1..n -> Symbols] : n \in 1..MaxSymbols}

Amounts == {NoAmount} \cup (1..AMOUNT_LIMIT)

(***************************************************************************)
(* Events and commands.                                                    *)
(***************************************************************************)
\* An application event {name, params}: params[0] is the session id and, for
\* timescale_update, params[1] is the session data {<key>: {s: bars}}.  The
\* key "none" stands for an event without params[1].
Event(name, session, bars) ==
    [name |-> name, session |-> session, key |-> "sds_1", s |-> bars]

MalformedUpdate(session) ==
    [name |-> "timescale_update", session |-> session, key |-> "none", s |-> <<>>]

\* A command {m: name, p: params} as connection.send writes it: the session
\* id, then the symbol, the position of the symbol (in sds_sym_<index> and
\* s<index>) and the batch size where the command carries them.
Cmd(name, session, symbol, index, batchSize) ==
    [name |-> name, session |-> session, symbol |-> symbol, index |-> index,
     batchSize |-> batchSize]

\* generateChartSession: cs_<symbol>_<random> (cs_<random> without a symbol).
\* The k-th random suffix drawn is modelled as k: two draws never collide.
generateChartSession(symbol, k) == [sym |-> symbol, rnd |-> k]

(***************************************************************************)
(* The frame codec, src/src/connection/protocol.ts.  A string is the       *)
(* sequence of its characters.  A JSON value is a tagged record: a string  *)
(* [t |-> "str", s |-> characters], a number [t |-> "num", n |-> n], null, *)
(* an array [t |-> "arr", a |-> values] or an object [t |-> "obj",         *)
(* o |-> members], a member being [k |-> key characters, v |-> value].     *)
(***************************************************************************)
DigitChars == <<"0", "1", "2", "3", "4", "5", "6", "7", "8", "9">>

IsDigit(c) == \E d \in 1..10 : DigitChars[d] = c

DigitValue(c) == (CHOOSE d \in 1..10 : DigitChars[d] = c) - 1

\* The decimal digits of n, as string concatenation with a number writes them.
RECURSIVE Digits(_)
Digits(n) ==
    IF n < 10 THEN <<DigitChars[n + 1]>> ELSE Digits(n \div 10) \o <<DigitChars[(n % 10) + 1]>>

StartsWith(s, prefix) ==
    Len(s) >= Len(prefix) /\ SubSeq(s, 1, Len(prefix)) = prefix

JStr(chars) == [t |-> "str", s |-> chars]

JNum(n) == [t |-> "num", n |-> n]

JNull == [t |-> "null"]

JArr(values) == [t |-> "arr", a |-> values]

JObj(members) == [t |-> "obj", o |-> members]

Member(key, value) == [k |-> key, v |-> value]

\* JSON.stringify of a string: quotes and backslashes are escaped.
RECURSIVE EscapeChars(_)
EscapeChars(chars) ==
    IF chars = <<>> THEN <<>>
    ELSE (IF Head(chars) \in {"\"", "\\"} THEN <<"\\", Head(chars)>> ELSE <<Head(chars)>>)
         \o EscapeChars(Tail(chars))

QuoteString(chars) == <<"\"">> \o EscapeChars(chars) \o <<"\"">>

\* JSON.stringify of a JSON value.
RECURSIVE JSONstringify(_)
RECURSIVE JoinValues(_)
RECURSIVE JoinMembers(_)
JoinValues(values) ==
    IF values = <<>> THEN <<>>
    ELSE JSONstringify(Head(values)) \o
         (IF Len(values) > 1 THEN <<",">> \o JoinValues(Tail(values)) ELSE <<>>)

JoinMembers(members) ==
    IF members = <<>> THEN <<>>
    ELSE QuoteString(Head(members).k) \o <<":">> \o JSONstringify(Head(members).v) \o
         (IF Len(members) > 1 THEN <<",">> \o JoinMembers(Tail(members)) ELSE <<>>)

JSONstringify(value) ==
    CASE value.t = "str" -> QuoteString(value.s)
      [] value.t = "num" -> Digits(value.n)
      [] value.t = "null" -> <<"n", "u", "l", "l">>
      [] value.t = "arr" -> <<"[">> \o JoinValues(value.a) \o <<"]">>
      [] value.t = "obj" -> <<"{">> \o JoinMembers(value.o) \o <<"}">>

\* JSON.parse, by recursive descent.  A parse step yields [ok, val, pos]: pos
\* is the position after the value read.  The texts of the model hold no
\* white space, no escape other than \" and \\, and no literal other than
\* null; JSON.parse throws a SyntaxError (ok = FALSE) on anything else.
ParseFail == [ok |-> FALSE, val |-> <<>>, pos |-> 0]

ParseOk(val, pos) == [ok |-> TRUE, val |-> val, pos |-> pos]

RECURSIVE ScanString(_, _, _)
ScanString(s, j, acc) ==
    IF j > Len(s) THEN ParseFail
    ELSE IF s[j] = "\"" THEN ParseOk(acc, j + 1)
    ELSE IF s[j] = "\\"
         THEN IF j + 1 <= Len(s) /\ s[j + 1] \in {"\"", "\\"}
              THEN ScanString(s, j + 2, Append(acc, s[j + 1]))
              ELSE ParseFail
         ELSE ScanString(s, j + 1, Append(acc, s[j]))

\* The number of digits of s from position i on.
RECURSIVE DigitRun(_, _)
DigitRun(s, i) ==
    IF i <= Len(s) /\ IsDigit(s[i]) THEN 1 + DigitRun(s, i + 1) ELSE 0

RECURSIVE NumberOf(_)
NumberOf(digits) ==
    IF digits = <<>> THEN 0
    ELSE 10 * NumberOf(SubSeq(digits, 1, Len(digits) - 1)) + DigitValue(digits[Len(digits)])

RECURSIVE ParseValue(_, _)
RECURSIVE ParseElements(_, _, _)
RECURSIVE ParseMembers(_, _, _)
ParseValue(s, i) ==
    IF i > Len(s) THEN ParseFail
    ELSE IF s[i] = "\""
    THEN LET r == ScanString(s, i + 1, <<>>)
         IN  IF r.ok THEN ParseOk(JStr(r.val), r.pos) ELSE ParseFail
    ELSE IF IsDigit(s[i])
    THEN LET d == DigitRun(s, i)
         IN  IF d > 1 /\ s[i] = "0"
             THEN ParseFail
             ELSE ParseOk(JNum(NumberOf(SubSeq(s, i, i + d - 1))), i + d)
    ELSE IF i + 3 <= Len(s) /\ SubSeq(s, i, i + 3) = <<"n", "u", "l", "l">>
    THEN ParseOk(JNull, i + 4)
    ELSE IF s[i] = "["
    THEN IF i + 1 <= Len(s) /\ s[i + 1] = "]"
         THEN ParseOk(JArr(<<>>), i + 2)
         ELSE ParseElements(s, i + 1, <<>>)
    ELSE IF s[i] = "{"
    THEN IF i + 1 <= Len(s) /\ s[i + 1] = "}"
         THEN ParseOk(JObj(<<>>), i + 2)
         ELSE ParseMembers(s, i + 1, <<>>)
    ELSE ParseFail

ParseElements(s, j, acc) ==
    LET r == ParseValue(s, j) IN
    IF ~r.ok \/ r.pos > Len(s) THEN ParseFail
    ELSE IF s[r.pos] = "," THEN ParseElements(s, r.pos + 1, Append(acc, r.val))
    ELSE IF s[r.pos] = "]" THEN ParseOk(JArr(Append(acc, r.val)), r.pos + 1)
    ELSE ParseFail

ParseMembers(s, j, acc) ==
    IF j > Len(s) \/ s[j] # "\"" THEN ParseFail
    ELSE LET key == ScanString(s, j + 1, <<>>) IN
         IF ~key.ok \/ key.pos > Len(s) \/ s[key.pos] # ":" THEN ParseFail
         ELSE LET r == ParseValue(s, key.pos + 1) IN
              IF ~r.ok \/ r.pos > Len(s) THEN ParseFail
              ELSE IF s[r.pos] = ","
                   THEN ParseMembers(s, r.pos + 1, Append(acc, Member(key.val, r.val)))
              ELSE IF s[r.pos] = "}"
                   THEN ParseOk(JObj(Append(acc, Member(key.val, r.val))), r.pos + 1)
              ELSE ParseFail

JSONparse(text) ==
    LET r == ParseValue(text, 1)
    IN  IF r.ok /\ r.pos = Len(text) + 1 THEN r ELSE ParseFail

\* value[key] of a parsed value: undefined unless value is an object with
\* that key (the last member wins).
JUndefined == [t |-> "undefined"]

Property(value, key) ==
    IF value.t = "obj" /\ \E k \in 1..Len(value.o) : value.o[k].k = key
    THEN LET last == CHOOSE k \in 1..Len(value.o) :
                        /\ value.o[k].k = key
                        /\ \A j \in (k + 1)..Len(value.o) : value.o[j].k # key
         IN  value.o[last].v
    ELSE JUndefined

\* JavaScript truthiness of a value.
Truthy(value) ==
    CASE value.t = "str" -> value.s # <<>>
      [] value.t = "num" -> value.n # 0
      [] value.t \in {"null", "undefined"} -> FALSE
      [] OTHER -> TRUE

\* The envelope ~m~<length>~m~<text>.
Delimiter == <<"~", "m", "~">>

Envelope(text) == Delimiter \o Digits(Len(text)) \o Delimiter \o text

\* The length of the match of /~m~\d+~m~/ at position i of s, 0 if none.
MatchLength(s, i) ==
    LET d == DigitRun(s, i + 3) IN
    IF /\ i + 5 + d <= Len(s)
       /\ d >= 1
       /\ SubSeq(s, i, i + 2) = Delimiter
       /\ SubSeq(s, i + 3 + d, i + 5 + d) = Delimiter
    THEN 6 + d
    ELSE 0

\* String.prototype.split(/~m~\d+~m~/): the pieces between the matches, the
\* piece before the first match included.
RECURSIVE SplitFrom(_, _, _)
SplitFrom(s, i, start) ==
    IF i > Len(s) THEN <<SubSeq(s, start, Len(s))>>
    ELSE IF MatchLength(s, i) > 0
         THEN <<SubSeq(s, start, i - 1)>> \o
              SplitFrom(s, i + MatchLength(s, i), i + MatchLength(s, i))
         ELSE SplitFrom(s, i + 1, start)

split(s) == SplitFrom(s, 1, 1)

KeyM == <<"m">>

KeyP == <<"p">>

KeySessionId == <<"s", "e", "s", "s", "i", "o", "n", "_", "i", "d">>

\* protocol.ts:22-34: the payload of one sub-message; ok = FALSE when
\* JSON.parse or the property read throws.
parsePayload(event) ==
    IF StartsWith(event, <<"~", "h", "~">>)
    THEN [ok |-> TRUE, type |-> "ping", data |-> Envelope(event)]
    ELSE LET parsed == JSONparse(event) IN
         IF ~parsed.ok \/ parsed.val.t = "null"
         THEN [ok |-> FALSE, type |-> "", data |-> <<>>]
         ELSE IF Truthy(Property(parsed.val, KeySessionId))
              THEN [ok |-> TRUE, type |-> "session", data |-> parsed.val]
              ELSE [ok |-> TRUE, type |-> "event", data |-> parsed.val]

\* protocol.ts:14-35: [ok, payloads]; ok = FALSE when the call throws.
parseMessage(message) ==
    IF Len(message) = 0 THEN [ok |-> TRUE, payloads |-> <<>>]
    ELSE LET events == Tail(split(message))
             mapped == [k \in 1..Len(events) |-> parsePayload(events[k])]
         IN  IF \A k \in 1..Len(events) : mapped[k].ok
             THEN [ok |-> TRUE,
                   payloads |-> [k \in 1..Len(events) |->
                                    [type |-> mapped[k].type, data |-> mapped[k].data]]]
             ELSE [ok |-> FALSE, payloads |-> <<>>]

\* protocol.ts:44-47
createMessage(name, params) ==
    Envelope(JSONstringify(JObj(<<Member(KeyM, JStr(name)), Member(KeyP, JArr(params))>>)))

\* protocol.ts:98-107: [ok, name, params]; ok = FALSE when the call throws.
createTradingEvent(payload) ==
    IF payload.type # "event"
    THEN [ok |-> FALSE, name |-> JUndefined, params |-> JUndefined]
    ELSE [ok |-> TRUE, name |-> Property(payload.data, KeyM),
          params |-> Property(payload.data, KeyP)]

VARIABLES
    rndCount,           \* number of random session suffixes drawn so far
    gc_pc,              \* getCandles: "idle", "pending", "resolved", "rejected"
    gc_symbols, gc_amount, gc_batchSize, gc_chartSession,
    allCandles, currentSymIndex, currentSymCandles,
    gc_subscribed,      \* the getCandles subscriber is registered
    gc_error,           \* the symbol tag of the DataError the call rejected with
    sent,               \* the commands written with connection.send, in order
    inbox,              \* the events on their way to the subscribers, in order
    srv_pos,            \* feed: number of commands of sent it has answered
    srv_sym, srv_feed, srv_given, srv_batch, srv_rounds,
    srv_feeds,          \* feed: the feed length chosen for each resolved symbol
    gc_errSeen,         \* positions whose symbol_error came with no candle accumulated
    srv_garbage,        \* feed: it has sent its malformed event
    srv_foreign,        \* an event of another call's session has been handed over
    cc_pc,              \* getCandlesConcurrent: "idle", "pending", "resolved", "rejected"
    cc_symbols, cc_amount, cc_batchSize,
    states,             \* SymbolStateManager.states: symbol -> SymbolState
    sessionMap,         \* ChartSessionManager.sessionMap: session -> symbol
    results, completedCount,
    cc_subscribed,      \* the getCandlesConcurrent subscriber is registered
    cc_error,           \* the symbol tag of the DataError the call rejected with
    cc_created,         \* per position, the session sent in chart_create_session
    cc_requested,       \* per position, the session sent in create_series
    cc_terminal,        \* positions whose created session got its terminal event
    cc_errSeen,         \* positions whose symbol_error came with no candle accumulated
    cc_order,           \* positions in the order their sessions completed
    cc_events,          \* per session, the number of events the peer has sent on it
    st_pc,              \* CandleStream: "idle", "constructed", "failed", and the
                        \* generator: "loop", "drain", "done", "thrown"
    st_symbols,         \* params.symbols
    st_amount,          \* params.amount
    st_batchSize,       \* the batch size of the event handler
    st_states,          \* symbolStateManager.states
    st_sessionMap,      \* chartSessionManager.sessionMap
    pendingYields,      \* the queue of completed results
    activeCount,        \* symbols still awaited
    hasError,           \* a failure was caught by the subscriber
    errorMessage,       \* its message, "" for null
    st_subscribed,      \* this.unsubscribe is set: the subscriber is registered
    st_created,         \* per position, the session registered for the symbol
    st_terminal,        \* positions whose session got its terminal event
    st_yielded,         \* the items the generator has yielded
    st_events,          \* per session, the number of events the peer has sent on it
    cd_pc,              \* codec run: "idle", "encoded", "decoded"
    cd_name, cd_params, \* the method name and parameter list encoded
    cd_frame,           \* createMessage(name, params)
    cd_parsed,          \* parseMessage(frame)
    cd_event,           \* createTradingEvent of the first payload
    cn_pc,              \* connect: "idle", "trying", "resolved", "rejected"
    cn_list,            \* endpointsToTry, the names
    cn_url,             \* per attempt, the URL its WebSocket was created with
    cn_sock,            \* per attempt, the readyState of its WebSocket
    cn_failing,         \* per attempt, the socket was failed: its error event is due
    cn_timer,           \* per attempt, connectionTimeout: "armed", "cleared", "fired"
    cn_promise,         \* per attempt, its promise: "pending", "resolved", "rejected"
    cn_reason,          \* per attempt, the value its promise was rejected with
    cn_lastError,       \* lastError of connect
    cn_outcome,         \* the value connect resolved or rejected with
    cn_alive,           \* the host process runs (an uncaught exception may end it)
    subscribers,        \* the Set of handlers of the connection, in insertion order
    cn_written,         \* the texts written with WebSocket.send, with their socket
    cn_delivered,       \* the invocations of handlers, with the event handed over
    cn_pings,           \* the keepalive payloads received, with their socket
    cn_frames,          \* number of frames received
    cn_timedOut,        \* attempts whose timer fired while the socket was CONNECTING
    cn_sessionId,       \* options.sessionId, "" when absent
    cn_token,           \* per attempt, token of connectToEndpoint
    cn_auth,            \* per attempt, the token exchange: "none", "fetching" or its outcome
    cn_close,           \* the promise of close(): "none", "pending", "resolved"
    cn_unsubCalls,      \* per handler subscribed, the calls of its unsubscribe
                        \* function since subscribe returned it
    rt_pc,              \* _retryStream: "idle", "created", "running", "delay",
                        \* "returned", "thrown"
    rt_maxRetries,      \* maxRetries
    attempts,           \* attempts of _retryStream
    rt_log,             \* per attempt over, "completed" or "failed"
    rt_items,           \* per item yielded, the attempt that produced it
    rt_thrown,          \* the attempt whose error was rethrown, 0 for none
    isStreaming,        \* EventDrivenCandleStream.isStreaming
    ed_stream,          \* EventDrivenCandleStream.stream: the call that set it, 0 for null
    ed_calls,           \* per call of startStreaming: "running", "refused",
                        \* "threw", "completed" or "failed"
    ed_items,           \* per call of startStreaming, the items its loop has handled
    ed_stops            \* number of calls of stopStreaming

gcVars == <<gc_pc, gc_symbols, gc_amount, gc_batchSize, gc_chartSession,
            allCandles, currentSymIndex, currentSymCandles, gc_subscribed,
            gc_error, gc_errSeen>>

wireVars == <<rndCount, sent, inbox>>

srvVars == <<srv_pos, srv_sym, srv_feed, srv_given, srv_batch, srv_rounds,
             srv_feeds, srv_garbage, srv_foreign>>

ccState == <<cc_pc, cc_symbols, cc_amount, cc_batchSize, states, sessionMap,
             results, completedCount, cc_subscribed, cc_error, cc_created,
             cc_requested, cc_terminal, cc_errSeen, cc_order>>

ccVars == <<ccState, cc_events>>

cdVars == <<cd_pc, cd_name, cd_params, cd_frame, cd_parsed, cd_event>>

authVars == <<cn_token, cn_auth>>

useVars == <<cn_sessionId, cn_close, cn_unsubCalls>>

cnVars == <<cn_pc, cn_list, cn_url, cn_sock, cn_failing, cn_timer, cn_promise,
            cn_reason, cn_lastError, cn_outcome, cn_alive, subscribers,
            cn_written, cn_delivered, cn_pings, cn_frames, cn_timedOut, authVars, useVars>>

netVars == <<cdVars, cnVars>>

stState == <<st_pc, st_symbols, st_amount, st_batchSize, st_states, st_sessionMap,
             pendingYields, activeCount, hasError, errorMessage, st_subscribed,
             st_created, st_terminal, st_yielded>>

stVars == <<stState, st_events>>

retrievalVars == <<gcVars, wireVars, srvVars, ccVars, stVars>>

rtVars == <<rt_pc, rt_maxRetries, attempts, rt_log, rt_items, rt_thrown>>

edVars == <<isStreaming, ed_stream, ed_calls, ed_items, ed_stops>>

utilVars == <<rtVars, edVars>>

vars == <<retrievalVars, netVars, utilVars>>

(***************************************************************************)
(* getCandles (sequential retrieval), src/src/index.ts:125-268.            *)
(***************************************************************************)
\* index.ts:158-167: trim a batch longer than the batch size, then prepend it.
GC_Accumulate(newCandles, current, batchSize) ==
    LET kept == IF Len(newCandles) > batchSize
                THEN filterNewCandles(newCandles, current, batchSize)
                ELSE newCandles
    IN  kept \o current

\* A variant of the refusal that has already sent the first request.
GC_Refuse_AfterSend ==
    /\ gc_pc' = "rejected"
    /\ gc_error' = "validation"
    /\ sent' = Append(sent, Cmd("chart_create_session", gc_chartSession, "", 0, 0))
    /\ UNCHANGED <<rndCount, gc_symbols, gc_amount, gc_batchSize, gc_chartSession,
                   allCandles, currentSymIndex, currentSymCandles, gc_subscribed>>

\* index.ts:132: validateParams throws and the call rejects with its error.
GC_Refuse ==
    /\ gc_pc' = "rejected"
    /\ gc_error' = "validation"
    /\ UNCHANGED <<rndCount, gc_symbols, gc_amount, gc_batchSize, gc_chartSession,
                   allCandles, currentSymIndex, currentSymCandles, gc_subscribed,
                   sent>>

\* index.ts:128-147 and 249-264: validate, subscribe, send the three requests.
GC_Call(connection, symbols, amount, timeframe) ==
    /\ gc_pc = "idle"
    /\ cc_pc = "idle"
    /\ st_pc = "idle"
    /\ IF validateParams(connection, symbols, amount, timeframe)
       THEN
       LET chartSession == generateChartSession("", rndCount + 1)
           batchSize == calculateBatchSize(amount)
       IN  /\ rndCount' = rndCount + 1
           /\ gc_pc' = "pending"
           /\ gc_symbols' = symbols
           /\ gc_amount' = amount
           /\ gc_batchSize' = batchSize
           /\ gc_chartSession' = chartSession
           /\ allCandles' = <<>>
           /\ currentSymIndex' = 0
           /\ currentSymCandles' = <<>>
           /\ gc_subscribed' = TRUE
           /\ sent' = sent \o
                  << Cmd("chart_create_session", chartSession, "", 0, 0),
                     Cmd("resolve_symbol", chartSession, symbols[1], 0, 0),
                     Cmd("create_series", chartSession, "", 0, batchSize) >>
           /\ UNCHANGED gc_error
       ELSE GC_Refuse
    /\ UNCHANGED <<gc_errSeen, inbox, srvVars, ccVars, stVars, netVars, utilVars>>

\* index.ts:157-174 and 238-246: a timescale_update event.  Reading
\* event.params[1]["sds_1"]["s"] of a malformed event throws, and the catch
\* block rejects with a DataError tagged with the current symbol; the
\* subscriber stays registered.
GC_OnTimescaleUpdate(ev) ==
    /\ IF ev.key = "sds_1"
       THEN /\ currentSymCandles' =
                   GC_Accumulate(ev.s, currentSymCandles, gc_batchSize)
            /\ UNCHANGED <<gc_pc, gc_error>>
       ELSE /\ gc_pc' = IF gc_pc = "pending" THEN "rejected" ELSE gc_pc
            /\ gc_error' = IF gc_pc = "pending"
                           THEN gc_symbols[currentSymIndex + 1]
                           ELSE gc_error
            /\ UNCHANGED currentSymCandles
    /\ UNCHANGED <<gc_symbols, gc_amount, gc_batchSize, gc_chartSession,
                   allCandles, currentSymIndex, gc_subscribed,
                   gc_errSeen, rndCount, sent>>

\* index.ts:180-187: the batch is full and more is wanted.
GC_RequestMore(ev) ==
    /\ sent' = Append(sent, Cmd("request_more_data", gc_chartSession, "", 0, gc_batchSize))
    /\ UNCHANGED <<gcVars, rndCount>>

\* A variant that puts the finished symbol's candles in front of the results.
GC_Finish_Unshift(ev) ==
    LET trimmed == IF gc_amount # NoAmount
                   THEN Slice0(currentSymCandles, gc_amount)
                   ELSE currentSymCandles
        processedCandles == processCandles(trimmed)
    IN  /\ allCandles' = <<processedCandles>> \o allCandles
        /\ gc_errSeen' = IF ev.name = "symbol_error" /\ currentSymCandles = <<>>
                         THEN gc_errSeen \cup {currentSymIndex}
                         ELSE gc_errSeen
        /\ IF Len(gc_symbols) - 1 > currentSymIndex
           THEN /\ currentSymCandles' = <<>>
                /\ currentSymIndex' = currentSymIndex + 1
                /\ sent' = sent \o
                      << Cmd("resolve_symbol", gc_chartSession,
                             gc_symbols[currentSymIndex + 2], currentSymIndex + 1, 0),
                         Cmd("modify_series", gc_chartSession, "",
                             currentSymIndex + 1, 0) >>
                /\ UNCHANGED <<gc_pc, gc_subscribed>>
           ELSE /\ currentSymCandles' = trimmed
                /\ gc_subscribed' = FALSE
                /\ gc_pc' = IF gc_pc = "pending" THEN "resolved" ELSE gc_pc
                /\ UNCHANGED <<currentSymIndex, sent>>
        /\ UNCHANGED <<gc_symbols, gc_amount, gc_batchSize, gc_chartSession,
                       gc_error, rndCount>>

\* A variant that creates a series for every symbol.
GC_Finish_CreateSeries(ev) ==
    LET trimmed == IF gc_amount # NoAmount
                   THEN Slice0(currentSymCandles, gc_amount)
                   ELSE currentSymCandles
        processedCandles == processCandles(trimmed)
    IN  /\ allCandles' = Append(allCandles, processedCandles)
        /\ gc_errSeen' = IF ev.name = "symbol_error" /\ currentSymCandles = <<>>
                         THEN gc_errSeen \cup {currentSymIndex}
                         ELSE gc_errSeen
        /\ IF Len(gc_symbols) - 1 > currentSymIndex
           THEN /\ currentSymCandles' = <<>>
                /\ currentSymIndex' = currentSymIndex + 1
                /\ sent' = sent \o
                      << Cmd("resolve_symbol", gc_chartSession,
                             gc_symbols[currentSymIndex + 2], currentSymIndex + 1, 0),
                         Cmd("create_series", gc_chartSession, "",
                             currentSymIndex + 1, gc_batchSize) >>
                /\ UNCHANGED <<gc_pc, gc_subscribed>>
           ELSE /\ currentSymCandles' = trimmed
                /\ gc_subscribed' = FALSE
                /\ gc_pc' = IF gc_pc = "pending" THEN "resolved" ELSE gc_pc
                /\ UNCHANGED <<currentSymIndex, sent>>
        /\ UNCHANGED <<gc_symbols, gc_amount, gc_batchSize, gc_chartSession,
                       gc_error, rndCount>>

\* index.ts:189-236: the current symbol is finished.
GC_Finish(ev) ==
    LET trimmed == IF gc_amount # NoAmount
                   THEN Slice0(currentSymCandles, gc_amount)
                   ELSE currentSymCandles
        processedCandles == processCandles(trimmed)
    IN  /\ allCandles' = Append(allCandles, processedCandles)
        /\ gc_errSeen' = IF ev.name = "symbol_error" /\ currentSymCandles = <<>>
                         THEN gc_errSeen \cup {currentSymIndex}
                         ELSE gc_errSeen
        /\ IF Len(gc_symbols) - 1 > currentSymIndex
           THEN /\ currentSymCandles' = <<>>
                /\ currentSymIndex' = currentSymIndex + 1
                /\ sent' = sent \o
                      << Cmd("resolve_symbol", gc_chartSession,
                             gc_symbols[currentSymIndex + 2], currentSymIndex + 1, 0),
                         Cmd("modify_series", gc_chartSession, "",
                             currentSymIndex + 1, 0) >>
                /\ UNCHANGED <<gc_pc, gc_subscribed>>
           ELSE /\ currentSymCandles' = trimmed
                /\ gc_subscribed' = FALSE
                /\ gc_pc' = IF gc_pc = "pending" THEN "resolved" ELSE gc_pc
                /\ UNCHANGED <<currentSymIndex, sent>>
        /\ UNCHANGED <<gc_symbols, gc_amount, gc_batchSize, gc_chartSession,
                       gc_error, rndCount>>

\* A variant of the subscriber that rejects on symbol_error, with a DataError
\* tagged with the current symbol.
GC_Handler_RejectOnSymbolError(ev) ==
    IF ev.name = "timescale_update"
    THEN GC_OnTimescaleUpdate(ev)
    ELSE IF ev.name = "symbol_error"
         THEN /\ gc_pc' = IF gc_pc = "pending" THEN "rejected" ELSE gc_pc
              /\ gc_error' = IF gc_pc = "pending"
                             THEN gc_symbols[currentSymIndex + 1]
                             ELSE gc_error
              /\ UNCHANGED <<gc_symbols, gc_amount, gc_batchSize, gc_chartSession,
                             allCandles, currentSymIndex, currentSymCandles,
                             gc_subscribed, gc_errSeen, rndCount, sent>>
         ELSE IF ev.name = "series_completed"
              THEN IF shouldRequestMoreData(Len(currentSymCandles), gc_amount)
                   THEN GC_RequestMore(ev)
                   ELSE GC_Finish(ev)
              ELSE UNCHANGED <<gcVars, rndCount, sent>>

\* index.ts:154-247: the subscriber of getCandles, run on one event.
GC_Handler(ev) ==
    IF ev.name = "timescale_update"
    THEN GC_OnTimescaleUpdate(ev)
    ELSE IF ev.name \in {"series_completed", "symbol_error"}
         THEN IF shouldRequestMoreData(Len(currentSymCandles), gc_amount)
              THEN GC_RequestMore(ev)
              ELSE GC_Finish(ev)
         ELSE UNCHANGED <<gcVars, rndCount, sent>>

\* websocket.ts:110-117: the connection hands the next inbound application
\* event to every subscriber.
SeqDispatch ==
    /\ inbox # <<>>
    /\ inbox' = Tail(inbox)
    /\ IF gc_subscribed
       THEN GC_Handler(Head(inbox))
       ELSE UNCHANGED <<gcVars, rndCount, sent>>
    /\ UNCHANGED <<srvVars, ccVars, stVars, netVars, utilVars>>

(***************************************************************************)
(* The simulated feed: the peer of getCandles.  It answers the commands in *)
(* the order they were sent.  A symbol has feed bars with timestamps       *)
(* 1..feed, or is unknown (NoSymbol); a series request is answered with    *)
(* the newest bars, oldest first, and request_more_data with the next      *)
(* older bars, which the feed may follow with the bars it already gave.    *)
(***************************************************************************)
NoSymbol == 0 - 1

Srv_Cmd == sent[srv_pos + 1]

Srv_CreateSession ==
    /\ gc_pc # "idle"
    /\ srv_pos < Len(sent)
    /\ Srv_Cmd.name = "chart_create_session"
    /\ srv_pos' = srv_pos + 1
    /\ UNCHANGED <<gcVars, wireVars, srv_sym, srv_feed, srv_given, srv_batch,
                   srv_rounds, srv_feeds, srv_garbage, srv_foreign, ccVars, stVars, netVars, utilVars>>

Srv_ResolveSymbol ==
    /\ gc_pc # "idle"
    /\ srv_pos < Len(sent)
    /\ Srv_Cmd.name = "resolve_symbol"
    /\ srv_pos' = srv_pos + 1
    /\ \E feed \in NoSymbol..MaxFeed :
          /\ srv_feed' = feed
          /\ srv_feeds' = Append(srv_feeds, feed)
          /\ inbox' = IF feed = NoSymbol
                      THEN Append(inbox, Event("symbol_error", Srv_Cmd.session, <<>>))
                      ELSE inbox
    /\ srv_sym' = Srv_Cmd.symbol
    /\ srv_given' = 0
    /\ UNCHANGED <<gcVars, rndCount, sent, srv_batch, srv_rounds, srv_garbage, srv_foreign, ccVars, stVars, netVars, utilVars>>

Srv_Series ==
    /\ gc_pc # "idle"
    /\ srv_pos < Len(sent)
    /\ Srv_Cmd.name \in {"create_series", "modify_series"}
    /\ srv_pos' = srv_pos + 1
    /\ LET batch == IF Srv_Cmd.name = "create_series" THEN Srv_Cmd.batchSize ELSE srv_batch
           k == Min(batch, srv_feed)
           bars == RawBars(srv_sym, srv_feed - k + 1, srv_feed)
       IN  /\ srv_batch' = batch
           /\ IF srv_feed = NoSymbol
              THEN UNCHANGED <<inbox, srv_given>>
              ELSE /\ srv_given' = k
                   /\ inbox' = inbox \o
                         (IF k > 0
                          THEN <<Event("timescale_update", Srv_Cmd.session, bars)>>
                          ELSE <<>>) \o
                         <<Event("series_completed", Srv_Cmd.session, <<>>)>>
    /\ UNCHANGED <<gcVars, rndCount, sent, srv_sym, srv_feed, srv_rounds, srv_feeds,
                   srv_garbage, srv_foreign, ccVars, stVars, netVars, utilVars>>

Srv_MoreData ==
    /\ gc_pc # "idle"
    /\ srv_pos < Len(sent)
    /\ Srv_Cmd.name = "request_more_data"
    /\ srv_rounds < MaxRounds
    /\ srv_feed # NoSymbol
    /\ srv_pos' = srv_pos + 1
    /\ srv_rounds' = srv_rounds + 1
    /\ LET k == Min(Srv_Cmd.batchSize, srv_feed - srv_given)
           older == RawBars(srv_sym, srv_feed - srv_given - k + 1, srv_feed - srv_given)
           known == RawBars(srv_sym, srv_feed - srv_given + 1, srv_feed)
       IN  /\ srv_given' = srv_given + k
           /\ \E resend \in BOOLEAN :
                 LET bars == IF resend THEN older \o known ELSE older
                 IN  inbox' = inbox \o
                        (IF bars # <<>>
                         THEN <<Event("timescale_update", Srv_Cmd.session, bars)>>
                         ELSE <<>>) \o
                        <<Event("series_completed", Srv_Cmd.session, <<>>)>>
    /\ UNCHANGED <<gcVars, rndCount, sent, srv_sym, srv_feed, srv_batch, srv_feeds,
                   srv_garbage, srv_foreign, ccVars, stVars, netVars, utilVars>>

\* The feed sends one timescale_update without session data.
Srv_Malformed ==
    /\ gc_pc = "pending"
    /\ ~srv_garbage
    /\ srv_garbage' = TRUE
    /\ inbox' = Append(inbox, MalformedUpdate(gc_chartSession))
    /\ UNCHANGED <<gcVars, rndCount, sent, srv_pos, srv_sym, srv_feed, srv_given,
                   srv_batch, srv_rounds, srv_feeds, srv_foreign, ccVars, stVars,
                   netVars, utilVars>>

\* The session of a retrieval that another caller runs on the connection.
ForeignSession == generateChartSession("", 0)

ForeignEvents ==
    {Event(name, ForeignSession, <<>>) : name \in {"series_completed", "symbol_error"}}
    \cup {Event("timescale_update", ForeignSession, RawBars("B", 1, 1))}

\* websocket.ts:110-114: the connection hands every event to every
\* subscriber, so the subscriber of getCandles is handed an event of the
\* other caller's session.
Srv_Foreign ==
    /\ gc_pc = "pending"
    /\ ~srv_foreign
    /\ srv_foreign' = TRUE
    /\ \E ev \in ForeignEvents : inbox' = Append(inbox, ev)
    /\ UNCHANGED <<gcVars, rndCount, sent, srv_pos, srv_sym, srv_feed, srv_given,
                   srv_batch, srv_rounds, srv_feeds, srv_garbage, ccVars, stVars,
                   netVars, utilVars>>

SeqInit ==
    /\ rndCount = 0
    /\ gc_pc = "idle"
    /\ gc_symbols = <<>>
    /\ gc_amount = NoAmount
    /\ gc_batchSize = 0
    /\ gc_chartSession = generateChartSession("", 0)
    /\ allCandles = <<>>
    /\ currentSymIndex = 0
    /\ currentSymCandles = <<>>
    /\ gc_subscribed = FALSE
    /\ gc_error = ""
    /\ gc_errSeen = {}
    /\ sent = <<>>
    /\ inbox = <<>>
    /\ srv_pos = 0
    /\ srv_sym = ""
    /\ srv_feed = 0
    /\ srv_given = 0
    /\ srv_batch = 0
    /\ srv_rounds = 0
    /\ srv_feeds = <<>>
    /\ srv_garbage = FALSE
    /\ srv_foreign = FALSE

SeqCall ==
    /\ gc_pc = "idle"
    /\ \/ \E symbols \in SymbolLists, amount \in Amounts, timeframe \in ValidTimeframes :
             GC_Call(TRUE, symbols, amount, timeframe)
       \/ \E params \in InvalidParams :
             GC_Call(params.connection, params.symbols, params.amount, params.timeframe)

SeqNext ==
    \/ SeqCall
    \/ SeqDispatch
    \/ Srv_CreateSession
    \/ Srv_ResolveSymbol
    \/ Srv_Series
    \/ Srv_MoreData
    \/ Srv_Malformed

(***************************************************************************)
(* getCandlesConcurrent (src/src/index.ts:289-419) with SymbolStateManager,*)
(* ChartSessionManager and CandleEventHandler (src/src/data/candles.ts).   *)
(***************************************************************************)
Range(s) == {s[k] : k \in 1..Len(s)}

\* Array.prototype.indexOf: the first JavaScript index that holds x.
indexOf(s, x) == (CHOOSE k \in 1..Len(s) : s[k] = x /\ \A j \in 1..(k - 1) : s[j] # x) - 1

\* SymbolStateManager.initializeSymbol
initializeSymbol == [candles |-> <<>>, completed |-> FALSE, error |-> FALSE]

\* ChartSessionManager.getSymbolForSession; "" stands for undefined.
getSymbolForSession(sessionId) ==
    IF sessionId \in DOMAIN sessionMap THEN sessionMap[sessionId] ELSE ""

\* A variant that returns all the candles accumulated.
getProcessedCandles_NoTrim(st, symbol, amount) == processCandles(st[symbol].candles)

\* SymbolStateManager.getProcessedCandles on the states st.
getProcessedCandles(st, symbol, amount) ==
    LET finalCandles == IF amount # NoAmount
                        THEN Slice0(st[symbol].candles, amount)
                        ELSE st[symbol].candles
    IN  processCandles(finalCandles)

\* A variant that never records the error.
markSymbolCompleted_NoError(st, symbol, withError) ==
    [st EXCEPT ![symbol].completed = TRUE, ![symbol].error = FALSE]

\* SymbolStateManager.markSymbolCompleted on the states st.
markSymbolCompleted(st, symbol, withError) ==
    [st EXCEPT ![symbol].completed = TRUE, ![symbol].error = withError]

\* A variant that fills the result slots in completion order.
originalIndex_CompletionOrder(symbols, symbolName) == completedCount

\* index.ts:350: the result slot of a completed symbol.
originalIndex(symbols, symbolName) == indexOf(symbols, symbolName)

\* index.ts:295: validateParams throws and the call rejects with its error.
CC_Refuse ==
    /\ cc_pc' = "rejected"
    /\ cc_error' = "validation"
    /\ UNCHANGED <<rndCount, cc_symbols, cc_amount, cc_batchSize, states, sessionMap,
                   results, completedCount, cc_subscribed, cc_created, cc_requested,
                   cc_events, sent>>

\* index.ts:312-330 and 391-411: validate, initialise the symbol states,
\* subscribe and send the three requests of every symbol, all in one tick.
\* For position i generateChartSession is called once by the loop body (the
\* session of resolve_symbol and create_series) and once more inside
\* createChartSession (the session registered and sent in chart_create_session).
CC_Call(connection, symbols, amount, timeframe) ==
    /\ cc_pc = "idle"
    /\ gc_pc = "idle"
    /\ st_pc = "idle"
    /\ IF validateParams(connection, symbols, amount, timeframe)
       THEN
       LET n == Len(symbols)
           batchSize == calculateBatchSize(amount)
           chartSession(i) == generateChartSession(symbols[i], rndCount + 2 * i - 1)
           created(i) == generateChartSession(symbols[i], rndCount + 2 * i)
           requests(i) ==
               << Cmd("chart_create_session", created(i), "", 0, 0),
                  Cmd("resolve_symbol", chartSession(i), symbols[i], i - 1, 0),
                  Cmd("create_series", chartSession(i), "", i - 1, batchSize) >>
       IN  /\ rndCount' = rndCount + 2 * n
           /\ cc_pc' = "pending"
           /\ cc_symbols' = symbols
           /\ cc_amount' = amount
           /\ cc_batchSize' = batchSize
           /\ states' = [s \in Range(symbols) |-> initializeSymbol]
           /\ sessionMap' = [id \in {created(i) : i \in 1..n} |->
                                symbols[CHOOSE i \in 1..n : created(i) = id]]
           /\ results' = <<>>
           /\ completedCount' = 0
           /\ cc_subscribed' = TRUE
           /\ cc_created' = [i \in 1..n |-> created(i)]
           /\ cc_requested' = [i \in 1..n |-> chartSession(i)]
           /\ cc_events' = [id \in {created(i) : i \in 1..n} \cup {chartSession(1)} |-> 0]
           /\ sent' = sent \o
                  [k \in 1..(3 * n) |-> requests(((k - 1) \div 3) + 1)[((k - 1) % 3) + 1]]
           /\ UNCHANGED cc_error
       ELSE CC_Refuse
    /\ UNCHANGED <<cc_terminal, cc_errSeen, cc_order, gcVars, inbox, srvVars, stVars,
                   netVars, utilVars>>

\* index.ts:376-388: the catch block of the subscriber.
CC_Reject ==
    /\ cc_pc' = IF cc_pc = "pending" THEN "rejected" ELSE cc_pc
    /\ cc_error' = IF cc_pc = "pending" THEN "unknown" ELSE cc_error

\* candles.ts:350-372 (CandleEventHandler.handleTimescaleUpdate) under the
\* try block of index.ts:333-337.
\* A variant that takes the bars of a completed symbol too.
CC_HandleTimescaleUpdate_NoCompletedTest(ev) ==
    LET symbol == getSymbolForSession(ev.session) IN
    /\ IF symbol = ""
       THEN UNCHANGED <<states, cc_pc, cc_error>>
       ELSE IF ev.key = "none"
            THEN CC_Reject /\ UNCHANGED states
            ELSE /\ states' = [states EXCEPT ![symbol].candles =
                        filterNewCandles(ev.s, @, cc_batchSize) \o @]
                 /\ UNCHANGED <<cc_pc, cc_error>>
    /\ UNCHANGED <<cc_symbols, cc_amount, cc_batchSize, sessionMap, results,
                   completedCount, cc_subscribed, cc_created, cc_requested,
                   cc_terminal, cc_errSeen, cc_order, sent>>

CC_HandleTimescaleUpdate(ev) ==
    LET symbol == getSymbolForSession(ev.session) IN
    /\ IF symbol = "" \/ states[symbol].completed
       THEN UNCHANGED <<states, cc_pc, cc_error>>
       ELSE IF ev.key = "none"
            THEN CC_Reject /\ UNCHANGED states
            ELSE /\ states' = [states EXCEPT ![symbol].candles =
                        filterNewCandles(ev.s, @, cc_batchSize) \o @]
                 /\ UNCHANGED <<cc_pc, cc_error>>
    /\ UNCHANGED <<cc_symbols, cc_amount, cc_batchSize, sessionMap, results,
                   completedCount, cc_subscribed, cc_created, cc_requested,
                   cc_terminal, cc_errSeen, cc_order, sent>>

\* candles.ts:377-410 (CandleEventHandler.handleSeriesEvent) with the
\* completion callback and the resolution of index.ts:339-375.
CC_HandleSeriesEvent(ev) ==
    LET symbol == getSymbolForSession(ev.session)
        positions == {i \in 0..(Len(cc_symbols) - 1) : cc_created[i + 1] = ev.session}
    IN
    IF symbol = ""
    THEN UNCHANGED <<ccState, sent>>
    ELSE IF states[symbol].completed
    THEN /\ cc_terminal' = cc_terminal \cup positions
         /\ UNCHANGED <<cc_pc, cc_symbols, cc_amount, cc_batchSize, states,
                        sessionMap, results, completedCount, cc_subscribed,
                        cc_error, cc_created, cc_requested, cc_errSeen,
                        cc_order, sent>>
    ELSE IF shouldRequestMoreData(Len(states[symbol].candles), cc_amount)
    THEN /\ sent' = Append(sent,
                       Cmd("request_more_data", ev.session, "", 0, cc_batchSize))
         /\ UNCHANGED ccState
    ELSE LET marked == markSymbolCompleted(states, symbol, ev.name = "symbol_error")
             slot == originalIndex(cc_symbols, symbol)
             count == completedCount + 1
         IN  /\ states' = marked
             /\ results' = [i \in DOMAIN results \cup {slot} |->
                              IF i = slot
                              THEN getProcessedCandles(marked, symbol, cc_amount)
                              ELSE results[i]]
             /\ completedCount' = count
             /\ cc_order' = Append(cc_order, slot)
             /\ cc_terminal' = cc_terminal \cup positions
             /\ cc_errSeen' = IF ev.name = "symbol_error" /\ states[symbol].candles = <<>>
                              THEN cc_errSeen \cup positions
                              ELSE cc_errSeen
             /\ IF count = Len(cc_symbols)
                THEN /\ cc_subscribed' = FALSE
                     /\ cc_pc' = IF cc_pc = "pending" THEN "resolved" ELSE cc_pc
                ELSE UNCHANGED <<cc_subscribed, cc_pc>>
             /\ UNCHANGED <<cc_symbols, cc_amount, cc_batchSize, sessionMap,
                            cc_error, cc_created, cc_requested, sent>>

\* index.ts:332-389: the subscriber of getCandlesConcurrent, run on one event.
CC_Handler(ev) ==
    IF ev.name = "timescale_update"
    THEN CC_HandleTimescaleUpdate(ev)
    ELSE CC_HandleSeriesEvent(ev)

(***************************************************************************)
(* The peer of getCandlesConcurrent: it sends, in any order, updates and   *)
(* terminal events on the sessions created with chart_create_session and   *)
(* on the session named in the first create_series command: at most        *)
(* MaxEvents on each created session (one more on the first), one on the   *)
(* other, and at most MaxEvents + MaxSymbols in all.  An update carries    *)
(* one bar or a full batch.  The symbol lists start with "A" (the code     *)
(* treats all symbols alike).                                              *)
(***************************************************************************)
ConcSessions == Range(cc_created) \cup {cc_requested[1]}

ConcBatches(sym) == {RawBars(sym, 1, hi) : hi \in {1, MAX_BATCH_SIZE}}

ConcEvents(session) ==
    {Event(name, session, <<>>) : name \in {"series_completed", "symbol_error"}}
    \cup (IF session = cc_created[1] THEN {MalformedUpdate(session)} ELSE {})
    \cup {Event("timescale_update", session, bars) : bars \in ConcBatches(session.sym)}

RECURSIVE EventsSent(_)
EventsSent(sessions) ==
    IF sessions = {} THEN 0
    ELSE LET session == CHOOSE s \in sessions : TRUE
         IN  cc_events[session] + EventsSent(sessions \ {session})

\* websocket.ts:110-117: the connection hands an inbound application event to
\* every subscriber (an event that finds no subscriber changes nothing).
ConcDispatch ==
    /\ cc_subscribed
    /\ EventsSent(ConcSessions) < MaxEvents + MaxSymbols
    /\ \E session \in ConcSessions :
          /\ cc_events[session] < (IF session = cc_created[1] THEN MaxEvents + 1
                                   ELSE IF session \in Range(cc_created) THEN MaxEvents
                                   ELSE 1)
          /\ cc_events' = [cc_events EXCEPT ![session] = @ + 1]
          /\ \E ev \in ConcEvents(session) : CC_Handler(ev)
    /\ UNCHANGED <<gcVars, rndCount, inbox, srvVars, stVars, netVars, utilVars>>

ConcInit ==
    /\ cc_pc = "idle"
    /\ cc_symbols = <<>>
    /\ cc_amount = NoAmount
    /\ cc_batchSize = 0
    /\ states = <<>>
    /\ sessionMap = <<>>
    /\ results = <<>>
    /\ completedCount = 0
    /\ cc_subscribed = FALSE
    /\ cc_error = ""
    /\ cc_created = <<>>
    /\ cc_requested = <<>>
    /\ cc_terminal = {}
    /\ cc_errSeen = {}
    /\ cc_order = <<>>
    /\ cc_events = <<>>

ConcAmounts == {NoAmount, 1}

ConcCall ==
    /\ cc_pc = "idle"
    /\ \/ \E symbols \in {l \in SymbolLists : l[1] = "A"}, amount \in ConcAmounts,
             timeframe \in ValidTimeframes :
             CC_Call(TRUE, symbols, amount, timeframe)
       \/ \E params \in InvalidParams :
             CC_Call(params.connection, params.symbols, params.amount, params.timeframe)

ConcNext ==
    \/ ConcCall
    \/ ConcDispatch

(***************************************************************************)
(* CandleStream and getCandlesStream (src/src/data/stream.ts) with the     *)
(* CandleEventHandler of src/src/data/candles.ts.  The consumer asks for   *)
(* the next item as soon as it was given one; the peer is the peer of      *)
(* getCandlesConcurrent, on the sessions the stream registered.            *)
(***************************************************************************)
\* stream.ts:147-156: cleanup().
ST_Cleanup ==
    /\ st_subscribed' = FALSE
    /\ st_states' = <<>>
    /\ st_sessionMap' = <<>>

\* stream.ts:47-61: new CandleStream(params).
ST_New(connection, symbols, amount, timeframe) ==
    /\ st_pc = "idle"
    /\ gc_pc = "idle"
    /\ cc_pc = "idle"
    /\ IF validateParams(connection, symbols, amount, timeframe)
       THEN /\ st_pc' = "constructed"
            /\ st_symbols' = symbols
            /\ st_amount' = amount
            /\ st_batchSize' = calculateBatchSize(amount)
       ELSE /\ st_pc' = "failed"
            /\ UNCHANGED <<st_symbols, st_amount, st_batchSize>>
    /\ UNCHANGED <<st_states, st_sessionMap, pendingYields, activeCount, hasError,
                   errorMessage, st_subscribed, st_created, st_terminal, st_yielded,
                   st_events, gcVars, wireVars, srvVars, ccVars, netVars, utilVars>>

\* stream.ts:161-177, 66-104 and 109-144: the first next() of stream(): the
\* subscriber is registered, the symbol states are initialised and the three
\* requests of every symbol are sent.
ST_Start ==
    /\ st_pc = "constructed"
    /\ LET n == Len(st_symbols)
           chartSession(i) == generateChartSession(st_symbols[i], rndCount + 2 * i - 1)
           created(i) == generateChartSession(st_symbols[i], rndCount + 2 * i)
           requests(i) ==
               << Cmd("chart_create_session", created(i), "", 0, 0),
                  Cmd("resolve_symbol", chartSession(i), st_symbols[i], i - 1, 0),
                  Cmd("create_series", chartSession(i), "", i - 1, st_batchSize) >>
       IN  /\ rndCount' = rndCount + 2 * n
           /\ st_pc' = "loop"
           /\ st_subscribed' = TRUE
           /\ st_states' = [s \in Range(st_symbols) |-> initializeSymbol]
           /\ activeCount' = n
           /\ st_sessionMap' = [id \in {created(i) : i \in 1..n} |->
                                   st_symbols[CHOOSE i \in 1..n : created(i) = id]]
           /\ st_created' = [i \in 1..n |-> created(i)]
           /\ st_events' = [id \in {created(i) : i \in 1..n} |-> 0]
           /\ sent' = sent \o
                  [k \in 1..(3 * n) |-> requests(((k - 1) \div 3) + 1)[((k - 1) % 3) + 1]]
    /\ UNCHANGED <<st_symbols, st_amount, st_batchSize, pendingYields, hasError,
                   errorMessage, st_terminal, st_yielded, inbox, gcVars, srvVars,
                   ccVars, netVars, utilVars>>

\* stream.ts:96-102: the catch block of the subscriber.
ST_Catch ==
    /\ hasError' = TRUE
    /\ errorMessage' = "TypeError"
    /\ ST_Cleanup

\* candles.ts:350-372 (handleTimescaleUpdate) under the try block of
\* stream.ts:68-72.
ST_HandleTimescaleUpdate(ev) ==
    LET symbol == IF ev.session \in DOMAIN st_sessionMap
                  THEN st_sessionMap[ev.session] ELSE ""
    IN
    /\ IF symbol = "" \/ symbol \notin DOMAIN st_states \/ st_states[symbol].completed
       THEN UNCHANGED <<st_states, st_sessionMap, st_subscribed, hasError, errorMessage>>
       ELSE IF ev.key = "none"
            THEN ST_Catch
            ELSE /\ st_states' = [st_states EXCEPT ![symbol].candles =
                        filterNewCandles(ev.s, @, st_batchSize) \o @]
                 /\ UNCHANGED <<st_sessionMap, st_subscribed, hasError, errorMessage>>
    /\ UNCHANGED <<st_pc, st_symbols, st_amount, st_batchSize, pendingYields,
                   activeCount, st_created, st_terminal, st_yielded, sent>>

\* candles.ts:377-410 (handleSeriesEvent) with the callback and the count of
\* stream.ts:74-94.
ST_HandleSeriesEvent(ev) ==
    LET symbol == IF ev.session \in DOMAIN st_sessionMap
                  THEN st_sessionMap[ev.session] ELSE ""
        positions == {i \in 0..(Len(st_symbols) - 1) : st_created[i + 1] = ev.session}
    IN
    IF symbol = "" \/ symbol \notin DOMAIN st_states
    THEN UNCHANGED <<stState, sent>>
    ELSE IF st_states[symbol].completed
    THEN /\ st_terminal' = st_terminal \cup positions
         /\ UNCHANGED <<st_pc, st_symbols, st_amount, st_batchSize, st_states,
                        st_sessionMap, pendingYields, activeCount, hasError,
                        errorMessage, st_subscribed, st_created, st_yielded, sent>>
    ELSE IF shouldRequestMoreData(Len(st_states[symbol].candles), st_amount)
    THEN /\ sent' = Append(sent,
                       Cmd("request_more_data", ev.session, "", 0, st_batchSize))
         /\ UNCHANGED stState
    ELSE LET marked == markSymbolCompleted(st_states, symbol, ev.name = "symbol_error")
             candles == getProcessedCandles(marked, symbol, st_amount)
         IN  /\ pendingYields' = IF Len(candles) > 0 \/ ~hasError
                                 THEN Append(pendingYields,
                                             [symbol |-> symbol, candles |-> candles])
                                 ELSE pendingYields
             /\ activeCount' = activeCount - 1
             /\ st_terminal' = st_terminal \cup positions
             /\ IF activeCount - 1 = 0
                THEN ST_Cleanup
                ELSE /\ st_states' = marked
                     /\ UNCHANGED <<st_sessionMap, st_subscribed>>
             /\ UNCHANGED <<st_pc, st_symbols, st_amount, st_batchSize, hasError,
                            errorMessage, st_created, st_yielded, sent>>

\* stream.ts:66-103: the subscriber of the stream, run on one event.
ST_Handler(ev) ==
    IF ev.name = "timescale_update"
    THEN ST_HandleTimescaleUpdate(ev)
    ELSE ST_HandleSeriesEvent(ev)

StreamEvents(session) ==
    {Event(name, session, <<>>) : name \in {"series_completed", "symbol_error"}}
    \cup (IF session = st_created[1] THEN {MalformedUpdate(session)} ELSE {})
    \cup {Event("timescale_update", session, bars) : bars \in ConcBatches(session.sym)}

\* websocket.ts:110-117: the connection hands an inbound application event to
\* the subscriber of the stream.  The first session receives at most
\* MaxEvents events and every other one MaxEvents - 1.
ST_Dispatch ==
    /\ st_subscribed
    /\ \E session \in Range(st_created) :
          /\ st_events[session] < (IF session = st_created[1]
                                    THEN MaxEvents ELSE MaxEvents - 1)
          /\ st_events' = [st_events EXCEPT ![session] = @ + 1]
          /\ \E ev \in StreamEvents(session) : ST_Handler(ev)
    /\ UNCHANGED <<gcVars, rndCount, inbox, srvVars, ccVars, netVars, utilVars>>

\* stream.ts:178-192: the generator resumes in its first loop: it yields the
\* head of the queue, or leaves the loop and throws the failure.  With an
\* empty queue it sleeps.
ST_Loop ==
    /\ st_pc = "loop"
    /\ IF activeCount > 0 /\ ~hasError
       THEN /\ pendingYields # <<>>
            /\ st_yielded' = Append(st_yielded, Head(pendingYields).candles)
            /\ pendingYields' = Tail(pendingYields)
            /\ UNCHANGED <<st_pc, st_states, st_sessionMap, st_subscribed>>
       ELSE IF hasError /\ errorMessage # ""
            THEN /\ st_pc' = "thrown"
                 /\ ST_Cleanup
                 /\ UNCHANGED <<st_yielded, pendingYields>>
            ELSE /\ st_pc' = "drain"
                 /\ UNCHANGED <<st_yielded, pendingYields, st_states, st_sessionMap,
                                st_subscribed>>
    /\ UNCHANGED <<st_symbols, st_amount, st_batchSize, activeCount, hasError,
                   errorMessage, st_created, st_terminal, st_events, gcVars, wireVars,
                   srvVars, ccVars, netVars, utilVars>>

\* stream.ts:194-204: the generator yields what is left in the queue and
\* returns.
ST_Drain ==
    /\ st_pc = "drain"
    /\ IF pendingYields # <<>>
       THEN /\ st_yielded' = Append(st_yielded, Head(pendingYields).candles)
            /\ pendingYields' = Tail(pendingYields)
            /\ UNCHANGED <<st_pc, st_states, st_sessionMap, st_subscribed>>
       ELSE /\ st_pc' = "done"
            /\ ST_Cleanup
            /\ UNCHANGED <<st_yielded, pendingYields>>
    /\ UNCHANGED <<st_symbols, st_amount, st_batchSize, activeCount, hasError,
                   errorMessage, st_created, st_terminal, st_events, gcVars, wireVars,
                   srvVars, ccVars, netVars, utilVars>>

StreamInit ==
    /\ st_pc = "idle"
    /\ st_symbols = <<>>
    /\ st_amount = NoAmount
    /\ st_batchSize = 0
    /\ st_states = <<>>
    /\ st_sessionMap = <<>>
    /\ pendingYields = <<>>
    /\ activeCount = 0
    /\ hasError = FALSE
    /\ errorMessage = ""
    /\ st_subscribed = FALSE
    /\ st_created = <<>>
    /\ st_terminal = {}
    /\ st_yielded = <<>>
    /\ st_events = <<>>

StreamNew ==
    /\ st_pc = "idle"
    /\ \/ \E symbols \in {l \in SymbolLists : l[1] = "A"}, amount \in ConcAmounts,
             timeframe \in ValidTimeframes :
             ST_New(TRUE, symbols, amount, timeframe)
       \/ \E params \in InvalidParams :
             ST_New(params.connection, params.symbols, params.amount, params.timeframe)

StreamNext ==
    \/ StreamNew
    \/ ST_Start
    \/ ST_Dispatch
    \/ ST_Loop
    \/ ST_Drain

(***************************************************************************)
(* A codec run: a command is encoded with createMessage and the frame is   *)
(* decoded with parseMessage and createTradingEvent.  A name is made of at *)
(* most MaxNameLen pieces, a piece being a character or a run of           *)
(* characters that has the shape of an envelope header.                    *)
(***************************************************************************)
MaxNameLen == 2

MaxParams == 2

CodecPieces == {<<"a">>, <<"~">>, <<"\"">>, Delimiter \o <<"1">> \o Delimiter}

RECURSIVE Concat(_)
Concat(pieces) == IF pieces = <<>> THEN <<>> ELSE Head(pieces) \o Concat(Tail(pieces))

CodecNames == {Concat(ps) : ps \in UNION {[1..n -> CodecPieces] : n \in 0..MaxNameLen}}

CodecValues == {JNum(1), JNull, JStr(<<"a">>), JStr(Delimiter \o <<"1">> \o Delimiter)}

CodecParams == UNION {[1..n -> CodecValues] : n \in 0..MaxParams}

CodecInit ==
    /\ cd_pc = "idle"
    /\ cd_name = <<>>
    /\ cd_params = <<>>
    /\ cd_frame = <<>>
    /\ cd_parsed = [ok |-> TRUE, payloads |-> <<>>]
    /\ cd_event = [ok |-> FALSE, name |-> JUndefined, params |-> JUndefined]

\* protocol.ts:44-47 (and send, websocket.ts:80-83)
Codec_Encode ==
    /\ cd_pc = "idle"
    /\ \E name \in CodecNames, params \in CodecParams :
          /\ cd_name' = name
          /\ cd_params' = params
          /\ cd_frame' = createMessage(name, params)
    /\ cd_pc' = "encoded"
    /\ UNCHANGED <<cd_parsed, cd_event, cnVars, retrievalVars, utilVars>>

\* protocol.ts:14-35 and 98-107 (as the message loop calls them,
\* websocket.ts:98 and 112)
Codec_Decode ==
    /\ cd_pc = "encoded"
    /\ cd_pc' = "decoded"
    /\ cd_parsed' = parseMessage(cd_frame)
    /\ cd_event' = IF parseMessage(cd_frame).ok /\ Len(parseMessage(cd_frame).payloads) >= 1
                   THEN createTradingEvent(parseMessage(cd_frame).payloads[1])
                   ELSE cd_event
    /\ UNCHANGED <<cd_name, cd_params, cd_frame, cnVars, retrievalVars, utilVars>>

CodecNext ==
    \/ Codec_Encode
    \/ Codec_Decode

(***************************************************************************)
(* connect and connectToEndpoint, src/src/connection/websocket.ts.  The    *)
(* sockets, the timers and the host are the environment: a socket opens,   *)
(* fails (its error event fires and it closes) or delivers a frame; a      *)
(* timer fires; an exception that nothing catches is reported by the host  *)
(* (a browser) or ends the process (Node.js).                              *)
(***************************************************************************)
MaxFrames == 2

\* Calls of one unsubscribe function, and commands the caller sends.
MaxUnsubscribe == 2

MaxSends == 1

\* ENDPOINTS, in the order Object.entries lists it (candles.ts:507-512).
ENDPOINTS ==
    << [name |-> "data", url |-> "wss://data.tradingview.com/socket.io/websocket"],
       [name |-> "prodata", url |-> "wss://prodata.tradingview.com/socket.io/websocket"],
       [name |-> "charts-polygon",
        url |-> "wss://charts-polygon.tradingview.com/socket.io/websocket"],
       [name |-> "widgetdata",
        url |-> "wss://widgetdata.tradingview.com/socket.io/websocket"] >>

\* The values of options.endpoint tried: absent (""), a name of ENDPOINTS, a
\* custom wss:// URL, the URL of a named endpoint and a string that is none
\* of these.
CustomUrl == "wss://custom.example/socket"

DataUrl == ENDPOINTS[1].url

ConnOptions == {"", "prodata", CustomUrl, DataUrl, "bogus"}

startsWithWss(endpoint) == endpoint \in {CustomUrl, DataUrl}

\* websocket.ts:136-160
endpointsToTry(endpoint) ==
    LET named == {k \in 1..Len(ENDPOINTS) : ENDPOINTS[k].name = endpoint}
        first == IF named # {}
                 THEN ENDPOINTS[CHOOSE k \in named : TRUE]
                 ELSE IF startsWithWss(endpoint)
                      THEN [name |-> "custom", url |-> endpoint]
                      ELSE ENDPOINTS[1]
        other(e) == e.name # first.name
    IN  <<first>> \o SelectSeq(ENDPOINTS, other)

\* The values a promise settles with: the error Event of a socket
\* (websocket.ts:94) and the connection object (websocket.ts:108).
NoError == [kind |-> "none", target |-> ""]

ErrorEvent(url) == [kind |-> "Event", target |-> url]

Connection(url) == [kind |-> "connection", target |-> url]

\* What the host does with an exception that nothing catches.
UncaughtOutcomes == {"reported", "terminated"}

Keepalive == <<"~", "h", "~", "1">>

EventText == JSONstringify(JObj(<<Member(KeyM, JStr(<<"a">>)), Member(KeyP, JArr(<<>>))>>))

SessionText == JSONstringify(JObj(<<Member(KeySessionId, JStr(<<"s">>))>>))

MalformedText == <<"x">>

\* A JSON object that is neither a handshake nor an event: {"x":1}.
OtherShapeText == JSONstringify(JObj(<<Member(<<"x">>, JNum(1))>>))

\* The inbound frames, as the lists of their sub-messages.
ConnFrames ==
    { <<SessionText>>, <<Keepalive>>, <<EventText>>,
      <<Keepalive, EventText>>, <<Keepalive, MalformedText>>, <<OtherShapeText>> }

FrameText(subs) == Concat([k \in 1..Len(subs) |-> Envelope(subs[k])])

\* websocket.ts:98: parseMessage of every inbound frame.
ParsedFrames == [subs \in ConnFrames |-> parseMessage(FrameText(subs))]

SetAuthToken == <<"s", "e", "t", "_", "a", "u", "t", "h", "_", "t", "o", "k", "e", "n">>

\* websocket.ts:35
Token ==
    <<"u", "n", "a", "u", "t", "h", "o", "r", "i", "z", "e", "d", "_",
      "u", "s", "e", "r", "_", "t", "o", "k", "e", "n">>

\* The values of options.sessionId tried: absent and a credential.
SessionIds == {"", "sid"}

\* What the token exchange of websocket.ts:42-56 comes to: the page carries
\* an auth_token, the page carries none, fetch or resp.text() rejects.
AuthOutcomes == {"token", "nomatch", "throws"}

FetchedToken == <<"t">>

\* A variant of the exchange that leaves no token when it fails.
resolveToken_NoDefault(token, outcome) ==
    IF outcome = "token" THEN FetchedToken ELSE <<>>

\* websocket.ts:47-55: token after the exchange.
resolveToken(token, outcome) ==
    IF outcome = "token" THEN FetchedToken ELSE token

\* websocket.ts:35-59: what a call of connectToEndpoint has when it first
\* returns control: with a sessionId it awaits fetch and has no socket yet.
NewSocket(sessionId) == IF sessionId = "" THEN "CONNECTING" ELSE "NONE"

NewTimer(sessionId) == IF sessionId = "" THEN "armed" ELSE "none"

NewAuth(sessionId) == IF sessionId = "" THEN "none" ELSE "fetching"

\* The handlers a caller registers: one that returns and one that throws.
Handlers == {"handler", "thrower"}

Throws(handler) == handler = "thrower"

\* websocket.ts:73-74: subscribers.add(handler); a Set keeps its elements in
\* insertion order and ignores one it already holds.
subscribe(handler) ==
    IF handler \in Range(subscribers) THEN subscribers
    ELSE Append(subscribers, handler)

\* A variant of delete that puts back an element the Set does not hold.
delete_Toggle(subs, handler) ==
    LET others(h) == h # handler
    IN  IF handler \in Range(subs) THEN SelectSeq(subs, others)
        ELSE Append(subs, handler)

\* websocket.ts:76: Set.prototype.delete.
delete(subs, handler) ==
    LET others(h) == h # handler
    IN  SelectSeq(subs, others)

\* websocket.ts:75-77: the function subscribe returns.
Unsubscriber(handler) == delete(subscribers, handler)

\* Handlers that use the connection while they run: remover calls the
\* function that subscribe returned for handler, adder subscribes handler.
ReentrantHandlers == {"remover", "adder"}

\* The Set after handler has run on an event.
Ran(handler, subs) ==
    CASE handler = "remover" -> delete(subs, "handler")
      [] handler = "adder" -> IF "handler" \in Range(subs) THEN subs
                              ELSE Append(subs, "handler")
      [] OTHER -> subs

\* Set.prototype.forEach from the i-th element on: the elements are visited
\* in insertion order on the Set as it is at each step, so an element
\* deleted before its turn is not visited and an element added during the
\* loop is.  An exception of a handler leaves the loop.
RECURSIVE forEachFrom(_, _, _)
forEachFrom(subs, i, invoked) ==
    IF i > Len(subs) THEN [subs |-> subs, invoked |-> invoked]
    ELSE LET handler == subs[i]
             after == Ran(handler, subs)
             next == IF handler \in Range(after) THEN indexOf(after, handler) + 2 ELSE i
         IN  IF Throws(handler)
             THEN [subs |-> after, invoked |-> Append(invoked, handler)]
             ELSE forEachFrom(after, next, Append(invoked, handler))

\* websocket.ts:111-116: subscribers.forEach inside the try block: the
\* handlers run in insertion order, and an exception of one of them leaves
\* forEach for the catch clause.  The handlers that were invoked.
forEach(subs) == forEachFrom(subs, 1, <<>>).invoked

\* The Set after the dispatches of events.
RECURSIVE SubscribersAfter(_, _)
SubscribersAfter(events, subs) ==
    IF events = <<>> THEN subs
    ELSE SubscribersAfter(Tail(events), forEachFrom(subs, 1, <<>>).subs)

\* The command a caller sends on the connection.
CallerCommand == createMessage(<<"a">>, <<>>)

ConnInit ==
    /\ cn_pc = "idle"
    /\ cn_list = <<>>
    /\ cn_url = <<>>
    /\ cn_sock = <<>>
    /\ cn_failing = <<>>
    /\ cn_timer = <<>>
    /\ cn_promise = <<>>
    /\ cn_reason = <<>>
    /\ cn_lastError = NoError
    /\ cn_outcome = NoError
    /\ cn_alive = TRUE
    /\ subscribers = <<>>
    /\ cn_written = <<>>
    /\ cn_delivered = <<>>
    /\ cn_pings = <<>>
    /\ cn_frames = 0
    /\ cn_timedOut = {}
    /\ cn_sessionId = ""
    /\ cn_token = <<>>
    /\ cn_auth = <<>>
    /\ cn_close = "none"
    /\ cn_unsubCalls = <<>>

\* websocket.ts:132-163 and 59-94: the endpoint list is built and the first
\* attempt starts: new WebSocket(wsUrl), the timer, the listeners.
Conn_Connect(endpoint, sessionId) ==
    /\ cn_pc = "idle"
    /\ cn_list' = endpointsToTry(endpoint)
    /\ cn_url' = <<endpointsToTry(endpoint)[1].url>>
    /\ cn_pc' = "trying"
    /\ cn_sessionId' = sessionId
    /\ cn_token' = <<Token>>
    /\ cn_auth' = <<NewAuth(sessionId)>>
    /\ cn_sock' = <<NewSocket(sessionId)>>
    /\ cn_failing' = <<FALSE>>
    /\ cn_timer' = <<NewTimer(sessionId)>>
    /\ cn_promise' = <<"pending">>
    /\ cn_reason' = <<NoError>>
    /\ UNCHANGED <<cn_lastError, cn_outcome, cn_alive, subscribers, cn_written,
                   cn_delivered, cn_pings, cn_frames, cn_timedOut, cn_close,
                   cn_unsubCalls, cdVars, retrievalVars, utilVars>>

\* websocket.ts:41-59: the token exchange of attempt k is over, whatever came
\* of it; connectToEndpoint creates the socket and arms the timer.
Conn_Auth ==
    /\ cn_alive
    /\ \E k \in 1..Len(cn_auth), outcome \in AuthOutcomes :
          /\ cn_auth[k] = "fetching"
          /\ cn_auth' = [cn_auth EXCEPT ![k] = outcome]
          /\ cn_token' = [cn_token EXCEPT ![k] = resolveToken(@, outcome)]
          /\ cn_sock' = [cn_sock EXCEPT ![k] = "CONNECTING"]
          /\ cn_timer' = [cn_timer EXCEPT ![k] = "armed"]
    /\ UNCHANGED <<cn_pc, cn_list, cn_url, cn_failing, cn_promise, cn_reason,
                   cn_lastError, cn_outcome, cn_alive, subscribers, cn_written,
                   cn_delivered, cn_pings, cn_frames, cn_timedOut, useVars, cdVars,
                   retrievalVars, utilVars>>

\* An event leaves the promise of attempt k as it is.
ConnectWaits(sock, failing, timer) ==
    /\ cn_sock' = sock
    /\ cn_failing' = failing
    /\ cn_timer' = timer
    /\ UNCHANGED <<cn_pc, cn_url, cn_promise, cn_reason, cn_lastError, cn_outcome,
                   authVars>>

AttemptsBecome(url, sock, failing, timer, promise, reason) ==
    /\ cn_url' = url
    /\ cn_sock' = sock
    /\ cn_failing' = failing
    /\ cn_timer' = timer
    /\ cn_promise' = promise
    /\ cn_reason' = reason
    /\ cn_token' = IF Len(url) > Len(cn_token) THEN Append(cn_token, Token) ELSE cn_token
    /\ cn_auth' = IF Len(url) > Len(cn_auth) THEN Append(cn_auth, NewAuth(cn_sessionId)) ELSE cn_auth

\* A variant of the loop that goes on to the next endpoint after a success.
connectLoop_NoReturn(k, settled, reason, sock, failing, timer) ==
    LET promise == [cn_promise EXCEPT ![k] = settled]
        reasons == [cn_reason EXCEPT ![k] = reason]
        lastError == IF settled = "resolved" THEN cn_lastError ELSE reason
    IN  IF settled = "resolved" /\ k = Len(cn_list)
        THEN /\ AttemptsBecome(cn_url, sock, failing, timer, promise, reasons)
             /\ cn_pc' = "resolved"
             /\ cn_outcome' = Connection(cn_url[k])
             /\ UNCHANGED cn_lastError
        ELSE /\ cn_lastError' = lastError
             /\ IF k < Len(cn_list)
                THEN /\ AttemptsBecome(Append(cn_url, cn_list[k + 1].url),
                                       Append(sock, NewSocket(cn_sessionId)),
                                       Append(failing, FALSE),
                                       Append(timer, NewTimer(cn_sessionId)),
                                       Append(promise, "pending"),
                                       Append(reasons, NoError))
                     /\ UNCHANGED <<cn_pc, cn_outcome>>
                ELSE /\ AttemptsBecome(cn_url, sock, failing, timer, promise, reasons)
                     /\ cn_pc' = "rejected"
                     /\ cn_outcome' = lastError

\* A variant of the loop that keeps the first error instead of the last.
connectLoop_FirstError(k, settled, reason, sock, failing, timer) ==
    LET promise == [cn_promise EXCEPT ![k] = settled]
        reasons == [cn_reason EXCEPT ![k] = reason]
        lastError == IF cn_lastError = NoError THEN reason ELSE cn_lastError
    IN  IF settled = "resolved"
        THEN /\ AttemptsBecome(cn_url, sock, failing, timer, promise, reasons)
             /\ cn_pc' = "resolved"
             /\ cn_outcome' = Connection(cn_url[k])
             /\ UNCHANGED cn_lastError
        ELSE /\ cn_lastError' = lastError
             /\ IF k < Len(cn_list)
                THEN /\ AttemptsBecome(Append(cn_url, cn_list[k + 1].url),
                                       Append(sock, NewSocket(cn_sessionId)),
                                       Append(failing, FALSE),
                                       Append(timer, NewTimer(cn_sessionId)),
                                       Append(promise, "pending"),
                                       Append(reasons, NoError))
                     /\ UNCHANGED <<cn_pc, cn_outcome>>
                ELSE /\ AttemptsBecome(cn_url, sock, failing, timer, promise, reasons)
                     /\ cn_pc' = "rejected"
                     /\ cn_outcome' = lastError

\* websocket.ts:164-184: the promise of attempt k, which connect awaits, has
\* settled: connect returns the connection, or records the error and goes on
\* to the next endpoint, or throws the last error.
connectLoop(k, settled, reason, sock, failing, timer) ==
    LET promise == [cn_promise EXCEPT ![k] = settled]
        reasons == [cn_reason EXCEPT ![k] = reason]
        lastError == reason
    IN  IF settled = "resolved"
        THEN /\ AttemptsBecome(cn_url, sock, failing, timer, promise, reasons)
             /\ cn_pc' = "resolved"
             /\ cn_outcome' = Connection(cn_url[k])
             /\ UNCHANGED cn_lastError
        ELSE /\ cn_lastError' = lastError
             /\ IF k < Len(cn_list)
                THEN /\ AttemptsBecome(Append(cn_url, cn_list[k + 1].url),
                                       Append(sock, NewSocket(cn_sessionId)),
                                       Append(failing, FALSE),
                                       Append(timer, NewTimer(cn_sessionId)),
                                       Append(promise, "pending"),
                                       Append(reasons, NoError))
                     /\ UNCHANGED <<cn_pc, cn_outcome>>
                ELSE /\ AttemptsBecome(cn_url, sock, failing, timer, promise, reasons)
                     /\ cn_pc' = "rejected"
                     /\ cn_outcome' = lastError

\* The socket of attempt k opens.
Sock_Open ==
    /\ cn_alive
    /\ \E k \in 1..Len(cn_sock) :
          /\ cn_sock[k] = "CONNECTING"
          /\ cn_sock' = [cn_sock EXCEPT ![k] = "OPEN"]
    /\ UNCHANGED <<cn_pc, cn_list, cn_url, cn_failing, cn_timer, cn_promise, cn_reason,
                   cn_lastError, cn_outcome, cn_alive, subscribers, cn_written,
                   cn_delivered, cn_pings, cn_frames, cn_timedOut, authVars, useVars, cdVars,
                   retrievalVars, utilVars>>

\* websocket.ts:94: the socket of attempt k fails, or was failed by close():
\* its error event fires, the listener rejects the promise, the socket is
\* closed.
Sock_Error ==
    /\ cn_alive
    /\ \E k \in 1..Len(cn_sock) :
          /\ \/ cn_sock[k] \in {"CONNECTING", "OPEN"}
             \/ cn_sock[k] = "CLOSING" /\ cn_failing[k]
          /\ LET sock == [cn_sock EXCEPT ![k] = "CLOSED"]
                 failing == [cn_failing EXCEPT ![k] = FALSE]
             IN  IF cn_promise[k] = "pending"
                 THEN connectLoop(k, "rejected", ErrorEvent(cn_url[k]), sock, failing,
                                  cn_timer)
                 ELSE ConnectWaits(sock, failing, cn_timer)
    /\ UNCHANGED <<cn_list, cn_alive, subscribers, cn_written, cn_delivered,
                   cn_pings, cn_frames, cn_timedOut, useVars, cdVars, retrievalVars, utilVars>>

\* websocket.ts:62-69: the timer of attempt k fires.  With the socket still
\* CONNECTING it calls connection.close(), which fails the socket, and throws
\* inside the timer callback, where nothing catches the exception.
Conn_Timeout ==
    /\ cn_alive
    /\ \E k \in 1..Len(cn_timer) :
          /\ cn_timer[k] = "armed"
          /\ cn_timer' = [cn_timer EXCEPT ![k] = "fired"]
          /\ IF cn_sock[k] = "CONNECTING"
             THEN /\ cn_sock' = [cn_sock EXCEPT ![k] = "CLOSING"]
                  /\ cn_failing' = [cn_failing EXCEPT ![k] = TRUE]
                  /\ cn_timedOut' = cn_timedOut \cup {k}
                  /\ \E outcome \in UncaughtOutcomes : cn_alive' = (outcome = "reported")
             ELSE UNCHANGED <<cn_sock, cn_failing, cn_timedOut, cn_alive>>
    /\ UNCHANGED <<cn_pc, cn_list, cn_url, cn_promise, cn_reason, cn_lastError,
                   cn_outcome, subscribers, cn_written, cn_delivered, cn_pings,
                   cn_frames, authVars, useVars, cdVars, retrievalVars, utilVars>>

\* A variant of the loop that answers the handshake with nothing.
RECURSIVE WritesOf_NoAuth(_, _)
WritesOf_NoAuth(k, payloads) ==
    IF payloads = <<>> THEN <<>>
    ELSE (IF Head(payloads).type = "ping"
          THEN <<[sock |-> k, text |-> Head(payloads).data]>>
          ELSE <<>>)
         \o WritesOf_NoAuth(k, Tail(payloads))

\* websocket.ts:100-121: what the loop over the payloads writes to socket k.
RECURSIVE WritesOf(_, _)
WritesOf(k, payloads) ==
    IF payloads = <<>> THEN <<>>
    ELSE (CASE Head(payloads).type = "ping" ->
                  <<[sock |-> k, text |-> Head(payloads).data]>>
            [] Head(payloads).type = "session" ->
                  <<[sock |-> k, text |-> createMessage(SetAuthToken, <<JStr(cn_token[k])>>)]>>
            [] OTHER -> <<>>)
         \o WritesOf(k, Tail(payloads))

\* websocket.ts:110-117: the events the loop hands to the subscribers.
RECURSIVE EventsOf(_)
EventsOf(payloads) ==
    IF payloads = <<>> THEN <<>>
    ELSE (IF Head(payloads).type = "event"
          THEN <<[name |-> createTradingEvent(Head(payloads)).name,
                  params |-> createTradingEvent(Head(payloads)).params]>>
          ELSE <<>>)
         \o EventsOf(Tail(payloads))

\* websocket.ts:110-117: the invocations of handlers for the events of a frame.
\* closed: close() had been called; event:
\* the frame and the place in it of the event; registered: the Set then.
RECURSIVE Dispatch(_, _)
Dispatch(events, subs) ==
    IF events = <<>> THEN <<>>
    ELSE LET invoked == forEach(subs)
         IN  [j \in 1..Len(invoked) |->
                 [handler |-> invoked[j], name |-> Head(events).name,
                  params |-> Head(events).params,
                  event |-> <<cn_frames, Len(events)>>,
                  registered |-> Range(subs),
                  closed |-> cn_close # "none"]]
             \o Dispatch(Tail(events), forEachFrom(subs, 1, <<>>).subs)

\* websocket.ts:96-122: the message listener of attempt k runs on one frame.
\* A socket that close() has put in the CLOSING state may still deliver
\* frames until the closing handshake is over; what is sent on it is dropped.
\* When parseMessage throws, nothing catches the exception.
Sock_Message ==
    /\ cn_alive
    /\ cn_frames < MaxFrames
    /\ cn_frames' = cn_frames + 1
    /\ \E k \in 1..Len(cn_sock), subs \in ConnFrames :
          LET parsed == ParsedFrames[subs]
              isKeepalive(sub) == StartsWith(sub, <<"~", "h", "~">>)
              received == SelectSeq(subs, isKeepalive)
              session == \E j \in 1..Len(parsed.payloads) :
                            parsed.payloads[j].type = "session"
              timer == IF session /\ cn_timer[k] = "armed"
                       THEN [cn_timer EXCEPT ![k] = "cleared"]
                       ELSE cn_timer
          IN  /\ \/ cn_sock[k] = "OPEN"
                 \/ cn_sock[k] = "CLOSING" /\ ~cn_failing[k]
              /\ cn_pings' = cn_pings \o
                     [j \in 1..Len(received) |-> [sock |-> k, text |-> received[j]]]
              /\ IF ~parsed.ok
                 THEN /\ \E outcome \in UncaughtOutcomes :
                            cn_alive' = (outcome = "reported")
                      /\ UNCHANGED <<cn_pc, cn_url, cn_sock, cn_failing, cn_timer,
                                     cn_promise, cn_reason, cn_lastError, cn_outcome,
                                     cn_written, cn_delivered, subscribers,
                                     authVars>>
                 ELSE /\ cn_written' = IF cn_sock[k] = "OPEN"
                                       THEN cn_written \o WritesOf(k, parsed.payloads)
                                       ELSE cn_written
                      /\ cn_delivered' = cn_delivered \o
                             Dispatch(EventsOf(parsed.payloads), subscribers)
                      /\ subscribers' = SubscribersAfter(EventsOf(parsed.payloads),
                                                         subscribers)
                      /\ IF session /\ cn_promise[k] = "pending"
                         THEN connectLoop(k, "resolved", NoError, cn_sock, cn_failing,
                                          timer)
                         ELSE ConnectWaits(cn_sock, cn_failing, timer)
                      /\ UNCHANGED cn_alive
    /\ UNCHANGED <<cn_list, cn_timedOut, useVars, cdVars, retrievalVars, utilVars>>

\* The attempt whose promise resolved: the connection connect returned.
Returned == CHOOSE k \in 1..Len(cn_promise) : cn_promise[k] = "resolved"

\* websocket.ts:73-78: the caller registers a handler on the connection it
\* was given, and holds the function subscribe returned.  A caller registers
\* a handler once, on a connection it has not closed.
Conn_Subscribe(handler) ==
    /\ cn_alive
    /\ cn_pc = "resolved"
    /\ cn_close = "none"
    /\ handler \notin DOMAIN cn_unsubCalls
    /\ subscribers' = subscribe(handler)
    /\ cn_unsubCalls' = [h \in DOMAIN cn_unsubCalls \cup {handler} |->
                            IF h = handler THEN 0 ELSE cn_unsubCalls[h]]
    /\ UNCHANGED <<cn_pc, cn_list, cn_url, cn_sock, cn_failing, cn_timer, cn_promise,
                   cn_reason, cn_lastError, cn_outcome, cn_alive, cn_written,
                   cn_delivered, cn_pings, cn_frames, cn_timedOut, cn_close, cn_sessionId, authVars, cdVars,
                   retrievalVars, utilVars>>

\* websocket.ts:75-77: the caller calls a function subscribe returned.
Conn_Unsubscribe ==
    /\ cn_alive
    /\ \E handler \in DOMAIN cn_unsubCalls :
          /\ cn_unsubCalls[handler] < MaxUnsubscribe
          /\ subscribers' = Unsubscriber(handler)
          /\ cn_unsubCalls' = [cn_unsubCalls EXCEPT ![handler] = @ + 1]
    /\ UNCHANGED <<cn_pc, cn_list, cn_url, cn_sock, cn_failing, cn_timer, cn_promise,
                   cn_reason, cn_lastError, cn_outcome, cn_alive, cn_written,
                   cn_delivered, cn_pings, cn_frames, cn_timedOut, cn_close,
                   cn_sessionId, authVars, cdVars,
                   retrievalVars, utilVars>>

\* websocket.ts:80-83: the caller sends a command on the connection; a
\* socket that is no longer OPEN drops it.
Conn_Send ==
    /\ cn_alive
    /\ cn_pc = "resolved"
    /\ LET own(w) == w.text = CallerCommand
       IN  Len(SelectSeq(cn_written, own)) < MaxSends
    /\ cn_written' = IF cn_sock[Returned] = "OPEN"
                     THEN Append(cn_written, [sock |-> Returned, text |-> CallerCommand])
                     ELSE cn_written
    /\ UNCHANGED <<cn_pc, cn_list, cn_url, cn_sock, cn_failing, cn_timer, cn_promise,
                   cn_reason, cn_lastError, cn_outcome, cn_alive, subscribers,
                   cn_delivered, cn_pings, cn_frames, cn_timedOut, authVars, useVars, cdVars,
                   retrievalVars, utilVars>>

\* websocket.ts:85-91: close() listens for the close and error events of the
\* socket and calls connection.close(); the Set of handlers is left as it is.
Conn_Close ==
    /\ cn_alive
    /\ cn_pc = "resolved"
    /\ cn_close = "none"
    /\ cn_close' = "pending"
    /\ cn_sock' = [cn_sock EXCEPT ![Returned] = IF @ = "OPEN" THEN "CLOSING" ELSE @]
    /\ UNCHANGED <<cn_pc, cn_list, cn_url, cn_failing, cn_timer, cn_promise,
                   cn_reason, cn_lastError, cn_outcome, cn_alive, subscribers,
                   cn_written, cn_delivered, cn_pings, cn_frames, cn_timedOut,
                   cn_unsubCalls, cn_sessionId, authVars, cdVars, retrievalVars, utilVars>>

\* websocket.ts:87: the closing handshake of socket k is over, its close
\* event fires and the promise of close() resolves.
Sock_Closed ==
    /\ cn_alive
    /\ \E k \in 1..Len(cn_sock) :
          /\ cn_sock[k] = "CLOSING"
          /\ ~cn_failing[k]
          /\ cn_sock' = [cn_sock EXCEPT ![k] = "CLOSED"]
          /\ cn_close' = IF cn_close = "pending" /\ cn_promise[k] = "resolved"
                         THEN "resolved"
                         ELSE cn_close
    /\ UNCHANGED <<cn_pc, cn_list, cn_url, cn_failing, cn_timer, cn_promise,
                   cn_reason, cn_lastError, cn_outcome, cn_alive, subscribers,
                   cn_written, cn_delivered, cn_pings, cn_frames, cn_timedOut,
                   cn_unsubCalls, cn_sessionId, authVars, cdVars, retrievalVars, utilVars>>

\* One call of connect; the caller registers one handler.
ConnNext ==
    \/ \E endpoint \in ConnOptions : Conn_Connect(endpoint, "")
    \/ Sock_Open
    \/ Sock_Error
    \/ Conn_Timeout
    \/ Sock_Message
    \/ Conn_Subscribe("handler")

\* The use of a connection whose sockets do not fail: the caller subscribes,
\* unsubscribes, sends and closes while frames arrive.
UseNext ==
    \/ \E sessionId \in SessionIds : Conn_Connect("", sessionId)
    \/ Conn_Auth
    \/ Sock_Open
    \/ Sock_Message
    \/ \E handler \in Handlers : Conn_Subscribe(handler)
    \/ Conn_Unsubscribe
    \/ Conn_Send
    \/ Conn_Close
    \/ Sock_Closed

\* A connection whose handlers subscribe and unsubscribe while they run.
ReentrantNext ==
    \/ Conn_Connect("", "")
    \/ Sock_Open
    \/ Sock_Message
    \/ \E handler \in ReentrantHandlers \cup {"handler"} : Conn_Subscribe(handler)
    \/ Conn_Unsubscribe

(***************************************************************************)
(* StreamUtils.createRetryStream and _retryStream (stream.ts): a generator *)
(* that runs CandleStream attempts one after the other.  An attempt yields *)
(* at most MaxItems items and then completes or throws; maxRetries is any  *)
(* integer from -1 to MaxRetries.                                          *)
(***************************************************************************)
MaxRetries == 2

MaxItems == 2

\* The loop test and the start of an attempt: while (attempts <= maxRetries)
\* { attempts++; new CandleStream(params); yield* stream.stream() ... }.
RT_LoopTest ==
    IF attempts <= rt_maxRetries
    THEN /\ attempts' = attempts + 1
         /\ rt_pc' = "running"
    ELSE /\ rt_pc' = "returned"
         /\ UNCHANGED attempts

\* createRetryStream(params, maxRetries, retryDelay) returns the generator.
RT_Create(maxRetries) ==
    /\ rt_pc = "idle"
    /\ rt_pc' = "created"
    /\ rt_maxRetries' = maxRetries
    /\ attempts' = 0
    /\ UNCHANGED <<rt_log, rt_items, rt_thrown, retrievalVars, netVars, edVars>>

\* The first next() of the generator.
RT_First ==
    /\ rt_pc = "created"
    /\ RT_LoopTest
    /\ UNCHANGED <<rt_maxRetries, rt_log, rt_items, rt_thrown, retrievalVars, netVars, edVars>>

\* yield* stream.stream() hands an item of the running attempt on.
RT_Yield ==
    /\ rt_pc = "running"
    /\ Cardinality({k \in 1..Len(rt_items) : rt_items[k] = attempts}) < MaxItems
    /\ rt_items' = Append(rt_items, attempts)
    /\ UNCHANGED <<rt_pc, rt_maxRetries, attempts, rt_log, rt_thrown, retrievalVars,
                   netVars, edVars>>

\* The running attempt completes: return.
RT_Complete ==
    /\ rt_pc = "running"
    /\ rt_pc' = "returned"
    /\ rt_log' = Append(rt_log, "completed")
    /\ UNCHANGED <<rt_maxRetries, attempts, rt_items, rt_thrown, retrievalVars, netVars, edVars>>

\* A variant of the catch block that gives up one attempt early.
RT_Fail_GiveUpEarly ==
    /\ rt_pc = "running"
    /\ rt_log' = Append(rt_log, "failed")
    /\ IF attempts >= rt_maxRetries
       THEN /\ rt_pc' = "thrown"
            /\ rt_thrown' = attempts
       ELSE /\ rt_pc' = "delay"
            /\ UNCHANGED rt_thrown
    /\ UNCHANGED <<rt_maxRetries, attempts, rt_items, retrievalVars, netVars, edVars>>

\* The running attempt throws, from the constructor or from the generator:
\* the catch block rethrows the error or starts the delay.
RT_Fail ==
    /\ rt_pc = "running"
    /\ rt_log' = Append(rt_log, "failed")
    /\ IF attempts > rt_maxRetries
       THEN /\ rt_pc' = "thrown"
            /\ rt_thrown' = attempts
       ELSE /\ rt_pc' = "delay"
            /\ UNCHANGED rt_thrown
    /\ UNCHANGED <<rt_maxRetries, attempts, rt_items, retrievalVars, netVars, edVars>>

\* The delay is over: the loop goes round.
RT_Delay ==
    /\ rt_pc = "delay"
    /\ RT_LoopTest
    /\ UNCHANGED <<rt_maxRetries, rt_log, rt_items, rt_thrown, retrievalVars, netVars, edVars>>

RetryInit ==
    /\ rt_pc = "idle"
    /\ rt_maxRetries = 0
    /\ attempts = 0
    /\ rt_log = <<>>
    /\ rt_items = <<>>
    /\ rt_thrown = 0

RetryNext ==
    \/ \E maxRetries \in (0 - 1)..MaxRetries : RT_Create(maxRetries)
    \/ RT_First
    \/ RT_Yield
    \/ RT_Complete
    \/ RT_Fail
    \/ RT_Delay

(***************************************************************************)
(* EventDrivenCandleStream (stream.ts): startStreaming, stopStreaming and  *)
(* isActive on one instance.  The caller makes at most MaxStarts calls of  *)
(* startStreaming and MaxStops calls of stopStreaming; the loop of a call  *)
(* handles at most MaxItems items and then ends, completed or failed.      *)
(***************************************************************************)
MaxStarts == 3

MaxStops == 2

\* isActive()
isActive == isStreaming

\* The calls of startStreaming whose for-await loop is running.
RunningLoops == {i \in 1..Len(ed_calls) : ed_calls[i] = "running"}

\* startStreaming(params) up to its first await: it throws when the flag is
\* set; otherwise it sets the flag, constructs the CandleStream (which
\* throws on invalid parameters, before the try block) and enters the loop.
ED_StartStreaming(valid) ==
    /\ Len(ed_calls) < MaxStarts
    /\ ed_items' = Append(ed_items, 0)
    /\ IF isStreaming
       THEN /\ ed_calls' = Append(ed_calls, "refused")
            /\ UNCHANGED <<isStreaming, ed_stream>>
       ELSE /\ isStreaming' = TRUE
            /\ IF valid
               THEN /\ ed_stream' = Len(ed_calls) + 1
                    /\ ed_calls' = Append(ed_calls, "running")
               ELSE /\ ed_calls' = Append(ed_calls, "threw")
                    /\ UNCHANGED ed_stream
    /\ UNCHANGED <<ed_stops, retrievalVars, netVars, rtVars>>

\* The loop of a call handles one item of its generator.
ED_Item ==
    /\ \E i \in RunningLoops :
          /\ ed_items[i] < MaxItems
          /\ ed_items' = [ed_items EXCEPT ![i] = @ + 1]
    /\ UNCHANGED <<isStreaming, ed_stream, ed_calls, ed_stops, retrievalVars, netVars,
                   rtVars>>

\* The loop of a call ends, its generator being done or having thrown: the
\* finally block clears the flag and the stream.
ED_LoopEnds ==
    /\ \E i \in RunningLoops, outcome \in {"completed", "failed"} :
          ed_calls' = [ed_calls EXCEPT ![i] = outcome]
    /\ isStreaming' = FALSE
    /\ ed_stream' = 0
    /\ UNCHANGED <<ed_items, ed_stops, retrievalVars, netVars, rtVars>>

\* stopStreaming()
ED_StopStreaming ==
    /\ ed_stops < MaxStops
    /\ ed_stops' = ed_stops + 1
    /\ ed_stream' = 0
    /\ isStreaming' = FALSE
    /\ UNCHANGED <<ed_calls, ed_items, retrievalVars, netVars, rtVars>>

EventInit ==
    /\ isStreaming = FALSE
    /\ ed_stream = 0
    /\ ed_calls = <<>>
    /\ ed_items = <<>>
    /\ ed_stops = 0

EventNext ==
    \/ \E valid \in BOOLEAN : ED_StartStreaming(valid)
    \/ ED_Item
    \/ ED_LoopEnds
    \/ ED_StopStreaming

(***************************************************************************)
(* Specifications.                                                         *)
(***************************************************************************)
Init == SeqInit /\ ConcInit /\ StreamInit /\ CodecInit /\ ConnInit /\ RetryInit
        /\ EventInit

\* getCandles against the simulated feed.
SpecSeq == Init /\ [][SeqNext]_vars

\* getCandlesConcurrent against its peer.
SpecConc == Init /\ [][ConcNext]_vars

\* One retrieval call: sequential, concurrent or streamed.
RetrievalNext ==
    \/ SeqNext
    \/ ConcNext
    \/ StreamNext

SpecRetrieval == Init /\ [][RetrievalNext]_vars

\* One stream.
SpecStream == Init /\ [][StreamNext]_vars

\* One codec run.
SpecCodec == Init /\ [][CodecNext]_vars

\* One call of connect.
SpecConn == Init /\ [][ConnNext]_vars

\* websocket.ts:94 after connection.close() of a socket that was CONNECTING:
\* the error event of the aborted socket.
Sock_Aborted ==
    /\ Sock_Error
    /\ \E k \in 1..Len(cn_sock) :
          cn_sock[k] = "CLOSING" /\ cn_failing[k] /\ cn_sock'[k] = "CLOSED"

\* One call of connect whose own timers fire and whose aborted sockets
\* report their error; what the endpoints do is left to them.
SpecConnLive ==
    /\ Init
    /\ [][ConnNext]_vars
    /\ WF_vars(Conn_Timeout)
    /\ WF_vars(Sock_Aborted)

\* One connection in use.
SpecUse == Init /\ [][UseNext]_vars

\* One connection whose handlers use it while they run.
SpecReentrant == Init /\ [][ReentrantNext]_vars

\* A retrieval on a connection that another caller uses too.
SharedNext ==
    \/ RetrievalNext
    \/ Srv_Foreign

SpecShared == Init /\ [][SharedNext]_vars

\* The calls built on CandleEventHandler: concurrent or streamed.
HandlerNext ==
    \/ ConcNext
    \/ StreamNext

SpecHandler == Init /\ [][HandlerNext]_vars

\* One retry stream.
SpecRetry == Init /\ [][RetryNext]_vars

\* One event-driven stream and its caller.
SpecEvent == Init /\ [][EventNext]_vars

Next ==
    \/ SharedNext
    \/ ReentrantNext
    \/ CodecNext
    \/ ConnNext
    \/ UseNext
    \/ RetryNext
    \/ EventNext

Spec == Init /\ [][Next]_vars

(***************************************************************************)
(* Properties of the codec and of the connection.                          *)
(***************************************************************************)
IsEchoWrite(w) ==
    LET n == MatchLength(w.text, 1)
    IN  n > 0 /\ SubSeq(w.text, n + 1, n + 3) = <<"~", "h", "~">>

\* C6: every keepalive sub-message received is answered with exactly one
\* write, to the socket it came from, of its payload in the ~m~<length>~m~
\* envelope, whatever else its frame carried, and only application events
\* reach the subscriber.
C6_KeepaliveEchoed ==
    /\ SelectSeq(cn_written, IsEchoWrite) =
          [j \in 1..Len(cn_pings) |->
              [sock |-> cn_pings[j].sock, text |-> Envelope(cn_pings[j].text)]]
    /\ \A j \in 1..Len(cn_delivered) : cn_delivered[j].name = JStr(<<"a">>)

\* C7: decoding the frame createMessage(name, params) yields exactly one
\* application-event payload, and its trading event has that name and
\* those parameters.
C7_RoundTrip ==
    cd_pc = "decoded" =>
        /\ cd_parsed.ok
        /\ Len(cd_parsed.payloads) = 1
        /\ cd_parsed.payloads[1].type = "event"
        /\ cd_event.ok
        /\ cd_event.name = JStr(cd_name)
        /\ cd_event.params = JArr(cd_params)

\* C8: connect attempts its candidates in list order and one at a time: the
\* k-th attempt goes to the k-th candidate, every attempt before the latest
\* one has failed, and when connect resolves it does so with the connection
\* of the latest attempt, which succeeded.
C8_CandidatesInOrder ==
    /\ Len(cn_promise) <= Len(cn_list)
    /\ \A k \in 1..Len(cn_promise) : cn_url[k] = cn_list[k].url
    /\ \A k \in 1..(Len(cn_promise) - 1) : cn_promise[k] = "rejected"
    /\ cn_pc = "resolved" =>
          /\ cn_promise[Len(cn_promise)] = "resolved"
          /\ cn_outcome = Connection(cn_list[Len(cn_promise)].url)

\* C8 witness: the first two candidates failed and the third succeeded.
C8_Witness ==
    /\ cn_pc = "resolved"
    /\ cn_promise = <<"rejected", "rejected", "resolved">>
    /\ cn_outcome = Connection(cn_list[3].url)

C10_TimeoutAborts ==
    \A k \in cn_timedOut :
        (cn_sock[k] = "CLOSED" \/ ~cn_alive) =>
            /\ cn_promise[k] = "rejected"
            /\ (Len(cn_promise) > k \/ cn_pc = "rejected")

(***************************************************************************)
(* Properties of the retrieval calls.                                      *)
(***************************************************************************)
StrictlyIncreasing(candles) ==
    \A k \in 1..(Len(candles) - 1) : candles[k].timestamp < candles[k + 1].timestamp

NoBarTwice(candles) ==
    \A j, k \in 1..Len(candles) : j # k => candles[j].timestamp # candles[k].timestamp

\* C1: when getCandlesConcurrent resolves, every result slot i holds the
\* processed bars accumulated for symbols[i], whatever order the sessions
\* completed in.
C1_ResultsInInputOrder ==
    cc_pc = "resolved" =>
        /\ DOMAIN results = 0..(Len(cc_symbols) - 1)
        /\ \A i \in 0..(Len(cc_symbols) - 1) :
              /\ results[i] = getProcessedCandles(states, cc_symbols[i + 1], cc_amount)
              /\ \A k \in 1..Len(results[i]) :
                    results[i][k].low = SymTag(cc_symbols[i + 1])

\* C1 witness: two symbols, the second completed first, both with bars.
C1_Witness ==
    /\ cc_pc = "resolved"
    /\ cc_symbols = <<"A", "B">>
    /\ cc_order = <<1, 0>>
    /\ results[0] # <<>>
    /\ results[1] # <<>>

\* C2: once every session the call created has received its terminal event
\* (one for which no more data is requested), the promise is resolved with
\* exactly symbols.length result slots filled.
C2_ResolvesWhenAllTerminal ==
    (/\ cc_pc \in {"pending", "resolved"}
     /\ cc_symbols # <<>>
     /\ cc_terminal = 0..(Len(cc_symbols) - 1))
    => (cc_pc = "resolved" /\ Cardinality(DOMAIN results) = Len(cc_symbols))

\* C3: for one symbol and an amount A of at most MAX_BATCH_SIZE, getCandles
\* resolves with exactly A bars when the feed holds at least A bars and with
\* the feed's bars when it holds fewer, and their timestamps strictly
\* increase.
C3_ExactAmount ==
    (/\ gc_pc = "resolved"
     /\ Len(gc_symbols) = 1
     /\ gc_amount \in 1..MAX_BATCH_SIZE
     /\ srv_feeds[1] # NoSymbol)
    => /\ Len(allCandles) = 1
       /\ Len(allCandles[1]) = Min(gc_amount, srv_feeds[1])
       /\ StrictlyIncreasing(allCandles[1])

\* C3 witness: a full batch was asked of a feed that holds more.
C3_Witness ==
    /\ gc_pc = "resolved"
    /\ Len(gc_symbols) = 1
    /\ gc_amount = MAX_BATCH_SIZE
    /\ srv_feeds[1] > MAX_BATCH_SIZE
    /\ Len(allCandles[1]) = MAX_BATCH_SIZE

\* C4: no bar appears twice in a per-symbol result of getCandles, also when
\* the feed re-sends bars that were already accumulated.
C4_NoDuplicateBars ==
    gc_pc = "resolved" => \A i \in 1..Len(allCandles) : NoBarTwice(allCandles[i])

C11_CloseClearsSubscribers ==
    /\ cn_close # "none" => subscribers = <<>>
    /\ \A j \in 1..Len(cn_delivered) : ~cn_delivered[j].closed

\* C12: when an application event is dispatched, every handler registered at
\* that moment is invoked for it, also when another handler throws.
C12_SubscribersIsolated ==
    \A j \in 1..Len(cn_delivered) :
        \A h \in cn_delivered[j].registered :
            \E i \in 1..Len(cn_delivered) :
                /\ cn_delivered[i].event = cn_delivered[j].event
                /\ cn_delivered[i].handler = h

\* C18: the function subscribe returned is idempotent: a second call leaves
\* the Set of handlers as the first call left it, with the handler absent and
\* the other handlers in place.
C18_UnsubscribeIdempotent ==
    \A h \in Handlers :
        /\ delete(delete(subscribers, h), h) = delete(subscribers, h)
        /\ Range(delete(subscribers, h)) = Range(subscribers) \ {h}
        /\ h \in DOMAIN cn_unsubCalls /\ cn_unsubCalls[h] >= 1 =>
              h \notin Range(subscribers)

\* An unsubscribe function was called twice while another handler stays
\* registered.
C18_Witness ==
    \E h \in DOMAIN cn_unsubCalls :
        /\ cn_unsubCalls[h] = 2
        /\ subscribers # <<>>

\* The commands written to socket k: the writes that are not keepalive echoes.
CommandsOn(k) ==
    LET command(w) == w.sock = k /\ ~IsEchoWrite(w)
    IN  SelectSeq(cn_written, command)

DefaultAuthText == createMessage(SetAuthToken, <<JStr(Token)>>)

FetchedAuthText == createMessage(SetAuthToken, <<JStr(FetchedToken)>>)

AuthCommand(k, token) ==
    [sock |-> k,
     text |-> CASE token = Token -> DefaultAuthText
                [] token = FetchedToken -> FetchedAuthText
                [] OTHER -> createMessage(SetAuthToken, <<JStr(token)>>)]

\* C19: the first command written to a socket is set_auth_token with the
\* token of its attempt, and it has been written when connect has resolved,
\* so that no command of the caller comes before it.
C19_AuthTokenFirst ==
    /\ \A k \in 1..Len(cn_sock) :
          CommandsOn(k) # <<>> => CommandsOn(k)[1] = AuthCommand(k, cn_token[k])
    /\ cn_pc = "resolved" => CommandsOn(Returned) # <<>>

\* connect resolved after an exchange that gave a token, and the caller has
\* sent a command.
C19_Witness ==
    /\ cn_pc = "resolved"
    /\ cn_auth[Returned] = "token"
    /\ Len(CommandsOn(Returned)) >= 2
    /\ CommandsOn(Returned)[2].text = CallerCommand

\* C20: an attempt whose token exchange failed goes on with the token
\* unauthorized_user_token: it is not rejected, its socket is created, and
\* every set_auth_token written to it, one at least once it has resolved,
\* carries that token.
C20_FailedExchangeKeepsDefault ==
    \A k \in 1..Len(cn_auth) :
        cn_auth[k] \in {"nomatch", "throws"} =>
            /\ cn_sock[k] # "NONE"
            /\ cn_promise[k] # "rejected"
            /\ \A j \in 1..Len(CommandsOn(k)) :
                  \/ CommandsOn(k)[j].text = CallerCommand
                  \/ CommandsOn(k)[j] = AuthCommand(k, Token)
            /\ cn_promise[k] = "resolved" => AuthCommand(k, Token) \in Range(cn_written)

\* An attempt whose fetch rejected has resolved.
C20_Witness ==
    \E k \in 1..Len(cn_auth) :
        /\ cn_auth[k] = "throws"
        /\ cn_promise[k] = "resolved"
        /\ AuthCommand(k, Token) \in Range(cn_written)

(***************************************************************************)
(* More properties of the retrieval calls.                                 *)
(***************************************************************************)
\* C14: getCandles resolves only when the feed has resolved the last symbol
\* requested, with one bar sequence per requested symbol, in request
\* order: result[i] holds bars of symbols[i] only, none when the feed does not
\* know the symbol and some when it has bars; while the call is pending the
\* results of the symbols to come are missing.
C14_OnePerSymbolInOrder ==
    /\ gc_pc = "pending" => Len(allCandles) = currentSymIndex /\
                            currentSymIndex < Len(gc_symbols)
    /\ gc_pc = "resolved" =>
          /\ Len(allCandles) = Len(gc_symbols)
          /\ Len(srv_feeds) = Len(gc_symbols)
          /\ \A i \in 1..Len(gc_symbols) :
                /\ \A k \in 1..Len(allCandles[i]) :
                      allCandles[i][k].low = SymTag(gc_symbols[i])
                /\ srv_feeds[i] = NoSymbol => allCandles[i] = <<>>
                /\ srv_feeds[i] > 0 => allCandles[i] # <<>>

\* getCandles resolved for two different symbols that both have bars.
C14_Witness ==
    /\ gc_pc = "resolved"
    /\ gc_symbols = <<"B", "A">>
    /\ allCandles[1] # <<>>
    /\ allCandles[2] # <<>>

CommandsNamed(name) ==
    LET named(c) == c.name = name
    IN  SelectSeq(sent, named)

\* C15: getCandlesConcurrent for n symbols sends n chart_create_session, n
\* resolve_symbol and n create_series commands, one of each per position of
\* symbols, before anything else is sent, and they are all sent when the call
\* returns; with an amount every result holds at most that many bars.
C15_ThreeCommandsPerSymbol ==
    cc_pc # "idle" =>
        LET n == Len(cc_symbols) IN
        /\ \A name \in {"chart_create_session", "resolve_symbol", "create_series"} :
              Len(CommandsNamed(name)) = n
        /\ Len(sent) >= 3 * n
        /\ \A k \in 1..(3 * n) :
              sent[k].name \in {"chart_create_session", "resolve_symbol", "create_series"}
        /\ \A i \in 1..n :
              /\ \E c \in Range(CommandsNamed("resolve_symbol")) :
                    c.index = i - 1 /\ c.symbol = cc_symbols[i]
              /\ \E c \in Range(CommandsNamed("create_series")) : c.index = i - 1
              /\ \E c \in Range(CommandsNamed("chart_create_session")) :
                    c.session = cc_created[i]
        /\ (cc_pc = "resolved" /\ cc_amount # NoAmount) =>
              \A i \in DOMAIN results : Len(results[i]) <= cc_amount

\* The call for two symbols resolved with an amount smaller than what a
\* symbol had accumulated.
C15_Witness ==
    /\ cc_pc = "resolved"
    /\ Len(cc_symbols) = 2
    /\ cc_amount # NoAmount
    /\ \E s \in DOMAIN states : Len(states[s].candles) > cc_amount
    /\ \E i \in DOMAIN results : Len(results[i]) = cc_amount

(***************************************************************************)
(* Properties of the stream.                                               *)
(***************************************************************************)
\* C16: when every session of the stream has got its terminal event and no
\* failure occurred, every symbol's result was yielded or waits in the queue,
\* one per requested symbol, nothing is awaited any more, and the generator
\* that has returned has yielded exactly symbols.length items.
C16_StreamYieldsEachSymbolOnce ==
    (/\ st_pc \in {"loop", "drain", "done"}
     /\ ~hasError
     /\ st_terminal = 0..(Len(st_symbols) - 1))
    => /\ Len(st_yielded) + Len(pendingYields) = Len(st_symbols)
       /\ activeCount = 0
       /\ st_pc = "done" => Len(st_yielded) = Len(st_symbols)

\* C17: the generator that ended by throwing the failure has yielded every
\* result that was queued: none is left in the queue.
C17_QueuedResultsBeforeFailure ==
    st_pc = "thrown" => pendingYields = <<>>

\* C13: a call that parameter validation refuses has sent no command and has
\* registered no subscriber, be it getCandles, getCandlesConcurrent or the
\* construction of a CandleStream.
C13_ValidationBeforeNetwork ==
    (\/ gc_pc = "rejected" /\ gc_error = "validation"
     \/ cc_pc = "rejected" /\ cc_error = "validation"
     \/ st_pc = "failed")
    => /\ sent = <<>>
       /\ ~gc_subscribed
       /\ ~cc_subscribed
       /\ ~st_subscribed

\* getCandles was refused by the validation.
C13_Witness ==
    /\ gc_pc = "rejected"
    /\ gc_error = "validation"
    /\ gc_symbols = <<>>


(***************************************************************************)
(* Properties of the classification of inbound sub-messages.               *)
(***************************************************************************)
\* C21: what the subscribers are handed as an application event is a JSON
\* object with the fields m and p: every invocation of a handler carries a
\* name that is a string and parameters that are an array.
C21_OnlyEventsDelivered ==
    \A j \in 1..Len(cn_delivered) :
        /\ cn_delivered[j].name.t = "str"
        /\ cn_delivered[j].params.t = "arr"


(***************************************************************************)
(* Properties of the sessions of the concurrent retrievals.                *)
(***************************************************************************)
\* C22: every resolve_symbol and create_series command carries a session id
\* that an earlier chart_create_session command announced, and while the
\* concurrent call is pending the lookup of the session of the i-th
\* create_series yields the i-th symbol.
C22_SeriesOnCreatedSession ==
    /\ \A k \in 1..Len(sent) :
          sent[k].name \in {"resolve_symbol", "create_series"}
          => \E j \in 1..(k - 1) :
                /\ sent[j].name = "chart_create_session"
                /\ sent[j].session = sent[k].session
    /\ cc_pc = "pending"
       => \A i \in 1..Len(cc_requested) :
             getSymbolForSession(cc_requested[i]) = cc_symbols[i]


(***************************************************************************)
(* Properties of the reactions to single events.  A step of the            *)
(* sequential call consumes the head of inbox; a step of the concurrent    *)
(* call or of the stream is the handler run on one event of the peer.      *)
(***************************************************************************)
\* The accumulated bars after a payload is taken in: a payload longer than
\* the batch size loses its last Len(accumulated) bars, then it is put in
\* front.
DropLastAndPrepend(payload, accumulated, batchSize) ==
    IF Len(payload) > batchSize
    THEN SubSeq(payload, 1, Len(payload) - Len(accumulated)) \o accumulated
    ELSE payload \o accumulated

\* The sequential call takes the update at the head of inbox.
SeqTakesUpdate ==
    /\ gc_subscribed
    /\ inbox # <<>>
    /\ inbox' = Tail(inbox)
    /\ Head(inbox).name = "timescale_update"
    /\ Head(inbox).key = "sds_1"

\* The batch size of a call: min(amount, MAX_BATCH_SIZE), MAX_BATCH_SIZE
\* without an amount.
BatchSizeOf(amount) ==
    IF amount = NoAmount THEN MAX_BATCH_SIZE ELSE Min(amount, MAX_BATCH_SIZE)

\* The pagination rule: the count is positive, a multiple of the batch size
\* and, with an amount, below it.
MoreDataRule(count, amount) ==
    /\ count > 0
    /\ count % BatchSizeOf(amount) = 0
    /\ (amount = NoAmount \/ count < amount)

\* The counts the rule is compared on.
MaxCount == 3 * MAX_BATCH_SIZE

\* A request_more_data command is the last command sent by the step.
SendsMoreData(session, batchSize) ==
    sent' = Append(sent, Cmd("request_more_data", session, "", 0, batchSize))

\* The sequential call takes the terminal event at the head of inbox.
SeqTakesSeries ==
    /\ gc_subscribed
    /\ inbox # <<>>
    /\ inbox' = Tail(inbox)
    /\ Head(inbox).name \in {"series_completed", "symbol_error"}

\* The concurrent call takes ev, an event of a symbol that is not completed.
ConcTakes(ev) ==
    /\ cc_subscribed
    /\ cc_events # cc_events'
    /\ CC_Handler(ev)
    /\ getSymbolForSession(ev.session) # ""
    /\ ~states[getSymbolForSession(ev.session)].completed

\* The stream takes ev, an event of a symbol that is not completed.
StreamTakes(ev) ==
    /\ st_subscribed
    /\ st_events # st_events'
    /\ ST_Handler(ev)
    /\ ev.session \in DOMAIN st_sessionMap
    /\ ~st_states[st_sessionMap[ev.session]].completed

SeriesEvents(session) ==
    {Event(name, session, <<>>) : name \in {"series_completed", "symbol_error"}}

\* C23: a timescale_update leaves the accumulated bars equal to the payload
\* without its last N bars (N the count accumulated before, and only when
\* the payload is longer than the batch size) followed by the bars
\* accumulated before.
C23_DropsLastAccumulated ==
    [][/\ SeqTakesUpdate
          => currentSymCandles' =
                DropLastAndPrepend(Head(inbox).s, currentSymCandles, gc_batchSize)
       /\ cc_pc = "pending"
          => \A session \in Range(cc_created) :
                \A bars \in ConcBatches(session.sym) :
                   LET ev == Event("timescale_update", session, bars)
                       symbol == getSymbolForSession(session)
                   IN  ConcTakes(ev)
                       => states'[symbol].candles =
                             DropLastAndPrepend(bars, states[symbol].candles,
                                                cc_batchSize)]_vars


\* shouldRequestMoreData and calculateBatchSize are the rule and its batch
\* size, on every count up to MaxCount and every amount the validation
\* accepts.
ShouldRequestMoreDataIsRule ==
    \A count \in 0..MaxCount, amount \in Amounts :
        /\ shouldRequestMoreData(count, amount) <=> MoreDataRule(count, amount)
        /\ calculateBatchSize(amount) = BatchSizeOf(amount)

\* C24: on series_completed or symbol_error a symbol that is not terminal
\* gets request_more_data, with the batch size of the call, and stays as it
\* is exactly when the pagination rule holds of its accumulated count; it
\* becomes terminal otherwise.  shouldRequestMoreData is the rule, for every
\* count and every amount that the validation accepts.
C24_MoreDataExactlyOnFullBatch ==
    [][/\ ShouldRequestMoreDataIsRule
       /\ SeqTakesSeries
          => IF MoreDataRule(Len(currentSymCandles), gc_amount)
             THEN /\ SendsMoreData(gc_chartSession, BatchSizeOf(gc_amount))
                  /\ UNCHANGED <<allCandles, currentSymIndex, currentSymCandles, gc_pc>>
             ELSE /\ Len(allCandles') = Len(allCandles) + 1
                  /\ \A k \in (Len(sent) + 1)..Len(sent') :
                        sent'[k].name # "request_more_data"
       /\ cc_pc = "pending"
          => \A session \in Range(cc_created) : \A ev \in SeriesEvents(session) :
                LET symbol == getSymbolForSession(session) IN
                ConcTakes(ev)
                => IF MoreDataRule(Len(states[symbol].candles), cc_amount)
                   THEN /\ SendsMoreData(session, BatchSizeOf(cc_amount))
                        /\ states' = states
                   ELSE /\ states'[symbol].completed
                        /\ sent' = sent
       /\ st_pc = "loop"
          => \A session \in Range(st_created) : \A ev \in SeriesEvents(session) :
                StreamTakes(ev)
                => LET symbol == st_sessionMap[session] IN
                   IF MoreDataRule(Len(st_states[symbol].candles), st_amount)
                   THEN /\ SendsMoreData(session, BatchSizeOf(st_amount))
                        /\ st_states' = st_states
                   ELSE /\ activeCount' = activeCount - 1
                        /\ sent' = sent]_vars

\* C24 witness: the sequential call has asked for more after a full batch.
C24_Witness ==
    /\ gc_pc = "pending"
    /\ Len(currentSymCandles) = MAX_BATCH_SIZE
    /\ sent # <<>>
    /\ sent[Len(sent)] = Cmd("request_more_data", gc_chartSession, "", 0, MAX_BATCH_SIZE)


\* The places in sent of the request_more_data commands of a session that
\* come after place from.
MoreDataRequests(session, from) ==
    {k \in (from + 1)..Len(sent) :
        sent[k].name = "request_more_data" /\ sent[k].session = session}

\* The place in sent of the last command that set the series of the shared
\* session.
LastSeries ==
    CHOOSE k \in 0..Len(sent) :
        /\ k > 0 => sent[k].name \in {"create_series", "modify_series"}
        /\ \A j \in (k + 1)..Len(sent) :
              sent[j].name \notin {"create_series", "modify_series"}

\* C25: request_more_data carries the session and the batch size of its
\* call, and it is sent at most once per batch: as every request answers a
\* count that is a positive multiple of the batch size, and bars must have
\* been added since the request before it, a symbol with r requests on its
\* session has accumulated at least r batches.
C25_OneRequestPerBatch ==
    /\ gc_pc = "pending"
       => /\ \A k \in MoreDataRequests(gc_chartSession, 0) :
                sent[k].batchSize = gc_batchSize
          /\ Cardinality(MoreDataRequests(gc_chartSession, LastSeries)) * gc_batchSize
                <= Len(currentSymCandles)
    /\ cc_pc = "pending"
       => \A session \in Range(cc_created) :
             /\ \A k \in MoreDataRequests(session, 0) : sent[k].batchSize = cc_batchSize
             /\ Cardinality(MoreDataRequests(session, 0)) * cc_batchSize
                   <= Len(states[getSymbolForSession(session)].candles)
    /\ st_pc = "loop" /\ st_subscribed
       => \A session \in Range(st_created) :
             /\ \A k \in MoreDataRequests(session, 0) : sent[k].batchSize = st_batchSize
             /\ Cardinality(MoreDataRequests(session, 0)) * st_batchSize
                   <= Len(st_states[st_sessionMap[session]].candles)


\* The concurrent call takes ev, an event of a completed symbol.
ConcTakesLate(ev) ==
    /\ cc_subscribed
    /\ cc_events # cc_events'
    /\ CC_Handler(ev)
    /\ getSymbolForSession(ev.session) # ""
    /\ states[getSymbolForSession(ev.session)].completed

\* The stream takes ev, an event of a completed symbol.
StreamTakesLate(ev) ==
    /\ st_subscribed
    /\ st_events # st_events'
    /\ ST_Handler(ev)
    /\ ev.session \in DOMAIN st_sessionMap
    /\ st_states[st_sessionMap[ev.session]].completed

\* C26: an event on the session of a completed symbol changes no symbol
\* state, no result and no count of completions, and sends nothing.
C26_TerminalIsFinal ==
    [][/\ cc_pc = "pending"
          => \A session \in Range(cc_created) : \A ev \in ConcEvents(session) :
                ConcTakesLate(ev)
                => UNCHANGED <<states, results, completedCount, cc_order, cc_pc, sent>>
       /\ st_pc = "loop"
          => \A session \in Range(st_created) : \A ev \in StreamEvents(session) :
                StreamTakesLate(ev)
                => UNCHANGED <<st_states, pendingYields, activeCount, st_yielded,
                               hasError, sent>>]_vars

\* C26 witness: with no amount, the first of two symbols was completed by the
\* first event of its session, and its session has had a second event.
C26_Witness ==
    /\ cc_pc = "pending"
    /\ cc_amount = NoAmount
    /\ cc_symbols = <<"A", "B">>
    /\ states["A"].completed
    /\ states["A"].candles = <<>>
    /\ cc_events[cc_created[1]] = 2


\* The sequential call takes the event at the head of inbox, which is of a
\* session that the call did not create.
SeqTakesForeign ==
    /\ gc_subscribed
    /\ inbox # <<>>
    /\ inbox' = Tail(inbox)
    /\ Head(inbox).session # gc_chartSession

\* The concurrent call takes ev, an event of a session it did not create.
ConcTakesForeign(ev) ==
    /\ cc_subscribed
    /\ cc_events # cc_events'
    /\ CC_Handler(ev)
    /\ ev.session \notin Range(cc_created)

\* C27: an event of a session that the call did not create changes none of
\* the call's accumulators, results and counters and sends no command, in
\* the sequential and in the concurrent call.
C27_ForeignEventsIgnored ==
    [][/\ SeqTakesForeign
          => UNCHANGED <<currentSymCandles, allCandles, currentSymIndex, gc_pc, sent>>
       /\ cc_pc = "pending"
          => \A ev \in ConcEvents(cc_requested[1]) :
                ConcTakesForeign(ev)
                => UNCHANGED <<states, results, completedCount, cc_pc, sent>>]_vars


(***************************************************************************)
(* Properties of the shared session of getCandles.                         *)
(***************************************************************************)
IsSetup(command) == command.name # "request_more_data"

\* The commands of a call that has reached its symbol of index n: the
\* session and the series of the first symbol, then for each later symbol
\* its resolve_symbol and its modify_series, all on one session.
SharedSessionCommands(n) ==
    << Cmd("chart_create_session", gc_chartSession, "", 0, 0),
       Cmd("resolve_symbol", gc_chartSession, gc_symbols[1], 0, 0),
       Cmd("create_series", gc_chartSession, "", 0, gc_batchSize) >>
    \o [j \in 1..(2 * n) |->
           IF j % 2 = 1
           THEN Cmd("resolve_symbol", gc_chartSession,
                    gc_symbols[((j + 1) \div 2) + 1], (j + 1) \div 2, 0)
           ELSE Cmd("modify_series", gc_chartSession, "", j \div 2, 0)]

\* C28: apart from request_more_data, getCandles has sent exactly the
\* commands of its shared session up to the current symbol, and every
\* symbol before the current one has its result.
C28_OneSharedSession ==
    gc_symbols # <<>>
    => /\ SelectSeq(sent, IsSetup) = SharedSessionCommands(currentSymIndex)
       /\ \A k \in 1..Len(sent) : sent[k].session = gc_chartSession
       /\ Len(allCandles) >= currentSymIndex

\* C28 witness: the call has moved to its second symbol.
C28_Witness ==
    /\ gc_pc = "pending"
    /\ Len(gc_symbols) = 2
    /\ currentSymIndex = 1
    /\ Len(allCandles) = 1
    /\ sent[Len(sent)].name = "modify_series"


(***************************************************************************)
(* Properties of handlers that use the connection while they run.          *)
(***************************************************************************)
\* The handlers invoked for the event of entry j of cn_delivered.
InvokedFor(j) ==
    {cn_delivered[k].handler :
        k \in {k \in 1..Len(cn_delivered) : cn_delivered[k].event = cn_delivered[j].event}}

\* C29: the dispatch of an event invokes exactly the handlers that were
\* registered when it began, whatever the handlers subscribe or unsubscribe
\* while it runs.
C29_DispatchOnSnapshot ==
    \A j \in 1..Len(cn_delivered) : InvokedFor(j) = cn_delivered[j].registered


(***************************************************************************)
(* Properties of the candidate list of connect.                            *)
(***************************************************************************)
EndpointNames == {ENDPOINTS[k].name : k \in 1..Len(ENDPOINTS)}

\* C30: the candidate list starts with a named endpoint or with the custom
\* one, the rest is made of the other named endpoints, every named endpoint
\* occurs exactly once and no URL occurs twice.
C30_CandidatesOnce ==
    cn_pc # "idle"
    => /\ cn_list[1].name \in EndpointNames \cup {"custom"}
       /\ {cn_list[k].name : k \in 2..Len(cn_list)} = EndpointNames \ {cn_list[1].name}
       /\ \A name \in EndpointNames :
             Cardinality({k \in 1..Len(cn_list) : cn_list[k].name = name}) = 1
       /\ \A j, k \in 1..Len(cn_list) : cn_list[j].url = cn_list[k].url => j = k


(***************************************************************************)
(* Failures while an event is processed.                                   *)
(***************************************************************************)
\* C31: when the processing of an event of symbol S throws, the pending call
\* rejects with a DataError tagged S: the sequential call with its current
\* symbol, the concurrent call with the symbol of the event's session.
C31_RejectsWithSymbolTag ==
    [][/\ (gc_pc = "pending" /\ gc_pc' = "rejected" /\ inbox # <<>>)
          => gc_error' = gc_symbols[currentSymIndex + 1]
       /\ (cc_pc = "pending" /\ cc_pc' = "rejected")
          => \E session \in Range(cc_created) :
                /\ cc_events'[session] # cc_events[session]
                /\ cc_error' = getSymbolForSession(session)]_vars


\* The first amount bars of the accumulated ones, all of them without an
\* amount.
TrimTo(candles, amount) ==
    IF amount = NoAmount
    THEN candles
    ELSE SubSeq(candles, 1, Min(amount, Len(candles)))

\* C32: a terminal symbol_error leaves the symbol completed with error =
\* true, a terminal series_completed completed with error = false, and
\* either way the symbol gives the bars accumulated before the event, cut to
\* the amount asked for.
C32_ErroredYieldsAccumulated ==
    [][/\ cc_pc = "pending"
          => \A session \in Range(cc_created) : \A ev \in SeriesEvents(session) :
                LET symbol == getSymbolForSession(session)
                    before == states[symbol].candles
                IN  (ConcTakes(ev) /\ ~MoreDataRule(Len(before), cc_amount))
                    => /\ states'[symbol].completed
                       /\ states'[symbol].error = (ev.name = "symbol_error")
                       /\ states'[symbol].candles = before
                       /\ results'[indexOf(cc_symbols, symbol)] =
                             processCandles(TrimTo(before, cc_amount))
       /\ st_pc = "loop"
          => \A session \in Range(st_created) : \A ev \in SeriesEvents(session) :
                StreamTakes(ev)
                => LET symbol == st_sessionMap[session]
                       before == st_states[symbol].candles
                   IN  ~MoreDataRule(Len(before), st_amount)
                       => /\ pendingYields' =
                                Append(pendingYields,
                                       [symbol |-> symbol,
                                        candles |-> processCandles(TrimTo(before, st_amount))])
                          /\ activeCount > 1
                             => /\ st_states'[symbol].completed
                                /\ st_states'[symbol].error = (ev.name = "symbol_error")
                                /\ st_states'[symbol].candles = before]_vars

\* C32 witness: a symbol of the concurrent call ended on symbol_error with
\* more bars accumulated than asked for, and its result has the amount asked
\* for.
C32_Witness ==
    /\ cc_pc # "idle"
    /\ cc_amount # NoAmount
    /\ \E symbol \in DOMAIN states :
          /\ states[symbol].completed
          /\ states[symbol].error
          /\ Len(states[symbol].candles) > cc_amount
          /\ indexOf(cc_symbols, symbol) \in DOMAIN results
          /\ Len(results[indexOf(cc_symbols, symbol)]) = cc_amount


(***************************************************************************)
(* Properties of the retry stream.                                         *)
(***************************************************************************)
\* C33: the retry stream starts at most maxRetries + 1 attempts; it returns
\* as soon as one attempt completes; after a failed attempt that is not the
\* (maxRetries + 1)-th it goes on to the next one; after the
\* (maxRetries + 1)-th failed attempt it rethrows the error of that attempt.
C33_AtMostMaxRetriesPlusOne ==
    /\ attempts <= Max(rt_maxRetries + 1, 0)
    /\ Len(rt_log) \in {attempts - 1, attempts}
    /\ \A j \in 1..Len(rt_log) :
          /\ rt_log[j] = "completed"
             => (j = Len(rt_log) /\ rt_pc = "returned" /\ attempts = j)
          /\ (rt_log[j] = "failed" /\ j <= rt_maxRetries)
             => (rt_thrown # j /\ (j = Len(rt_log) => rt_pc \in {"delay", "running"}))
          /\ (rt_log[j] = "failed" /\ j = rt_maxRetries + 1)
             => (rt_pc = "thrown" /\ rt_thrown = j)
    /\ rt_pc = "thrown"
       => (attempts = rt_maxRetries + 1 /\ \A j \in 1..Len(rt_log) : rt_log[j] = "failed")
    /\ (rt_pc = "returned" /\ rt_log # <<>>) => rt_log[Len(rt_log)] = "completed"
    /\ rt_pc # "thrown" => rt_thrown = 0

\* C33 witness: every one of the maxRetries + 1 attempts, more than one,
\* failed and the error of the last was rethrown.
C33_Witness ==
    /\ rt_pc = "thrown"
    /\ rt_maxRetries >= 1
    /\ attempts = rt_maxRetries + 1
    /\ rt_thrown = attempts


(***************************************************************************)
(* Termination of the pagination.                                          *)
(***************************************************************************)
\* C34: on a finite feed the requests for more data are bounded by the feed.
\* The series request hands over the first batch and every
\* request_more_data the next one, so a symbol whose feed holds f bars needs
\* at most f div batchSize requests (the last of them finds the feed
\* exhausted when f is an exact multiple); the sequential call sends no more
\* than that for its current symbol before it leaves it.
C34_RequestsBoundedByFeed ==
    (gc_pc = "pending" /\ srv_feed # NoSymbol /\ ~srv_garbage)
    => Cardinality(MoreDataRequests(gc_chartSession, LastSeries))
          <= srv_feed \div gc_batchSize


(***************************************************************************)
(* Symbol lists that name a symbol more than once.                         *)
(***************************************************************************)
\* C35: every occurrence of a symbol in the list of the concurrent call has
\* its own session and its own accumulator, and the result slot of every
\* occurrence whose session got its terminal event is filled.
C35_OccurrencesKeptApart ==
    cc_pc \in {"pending", "resolved"}
    => /\ Cardinality(Range(cc_created)) = Len(cc_symbols)
       /\ Cardinality(DOMAIN states) = Len(cc_symbols)
       /\ \A i \in cc_terminal : i \in DOMAIN results


(***************************************************************************)
(* The subscriber of a settled call.                                       *)
(***************************************************************************)
\* C36: once getCandles or getCandlesConcurrent has resolved or rejected,
\* its subscriber is no longer registered, and after a rejection the call
\* sends no command and leaves its results and accumulators as they are.
C36_SettledCallUnsubscribed ==
    [][/\ gc_pc \in {"resolved", "rejected"}
          => /\ ~gc_subscribed
             /\ UNCHANGED <<allCandles, currentSymIndex, currentSymCandles>>
             /\ gc_pc = "rejected" => sent' = sent
       /\ cc_pc \in {"resolved", "rejected"}
          => /\ ~cc_subscribed
             /\ UNCHANGED <<results, completedCount, states>>
             /\ cc_pc = "rejected" => sent' = sent]_vars


(***************************************************************************)
(* The bars kept when more than the amount were accumulated.               *)
(***************************************************************************)
\* The n most recent of bars that are ordered oldest first.
MostRecent(candles, n) == SubSeq(candles, Len(candles) - n + 1, Len(candles))

\* C37: with an amount above the batch size and more bars accumulated than
\* the amount, oldest first, the sequential call ends the symbol with the
\* amount most recent bars: the surplus is taken from the oldest bars and
\* the first batch received, the newest bars, is kept.
C37_TrimKeepsMostRecent ==
    [][(/\ SeqTakesSeries
        /\ gc_amount # NoAmount
        /\ gc_amount > gc_batchSize
        /\ Len(currentSymCandles) > gc_amount
        /\ StrictlyIncreasing(processCandles(currentSymCandles)))
       => allCandles' =
             Append(allCandles,
                    processCandles(MostRecent(currentSymCandles, gc_amount)))]_vars


(***************************************************************************)
(* Termination of connect.                                                 *)
(***************************************************************************)
\* C38: connect settles whatever the endpoints do: from the moment it is
\* trying it eventually resolves or rejects (or the host has stopped).
C38_ConnectSettles ==
    (cn_pc = "trying") ~> (cn_pc \in {"resolved", "rejected"} \/ ~cn_alive)


(***************************************************************************)
(* Properties of the event-driven stream.                                  *)
(***************************************************************************)
\* C39: at most one streaming loop runs at any time, and isActive() is true
\* whenever one runs.
C39_OneLoopAndActive ==
    /\ Cardinality(RunningLoops) <= 1
    /\ RunningLoops # {} => isActive

=============================================================================
